---- MODULE Spec2Model ----
(***************************************************************************)
(* A model of the template's hooks and formatting utilities:               *)
(*   useDebounce    (hooks/useDebounce)     src/unnamed/part_001           *)
(*   useMediaQuery  (hooks/useMediaQuery)   src/unnamed/part_000           *)
(*   truncate       (lib/utils/format)      src/unnamed/part_002           *)
(*   formatDate     (lib/utils/date)        src/template/src/lib/constants.ts *)
(*                                                                         *)
(* The hooks run inside React.  The model follows React's life cycle of a  *)
(* function component: a render computes the returned value from the       *)
(* committed state and the queued state updates; an effect whose           *)
(* dependencies changed is flushed after the commit (cleanup of the        *)
(* previous effect instance, then the new effect body); React flushes      *)
(* pending effects before it renders the component again; an unmount runs  *)
(* the cleanup of the live effect instance; a state update of an unmounted *)
(* component is dropped.  Timer callbacks and media-query events are       *)
(* browser tasks: they may run between a commit and the flush of its       *)
(* effects.  The clock is counted in quanta of the debounce delay; a       *)
(* commit and the flush of its effects fall into the same quantum.         *)
(*                                                                         *)
(* Each part has its own specification; the variables of the other parts   *)
(* keep their initial values under it.                                     *)
(***************************************************************************)
EXTENDS Integers, Sequences, FiniteSets, TLC

VARIABLES
    \* useDebounce
    value,            \* the value argument of the last render
    delay,            \* the delay argument of the last render
    debouncedValue,   \* the committed state of useState
    dbReturned,       \* what the last render returned
    dbUpdate,         \* the queued setDebouncedValue, or None
    dbEffect,         \* TRUE while the effect of the last commit waits to be flushed
    dbMounted,        \* FALSE once the component has unmounted
    timers,           \* the browser's timeouts: id -> NoTimeout or [val, rem]
    handler,          \* the timeout id held by the live effect instance, or NoTimer
    dbSince,          \* clock quanta since the input (value, delay) last changed
    dbPrev,           \* the superseded input whose effect instance is still live, or NoPrev
    dbInitial,        \* the value argument of the first render
    dbMountTimer,     \* the timeout of the mount effect: "none", "pending", "fired", "rendered", "done"
    dbDelayChange,    \* TRUE when the input last changed in its delay only, under a timeout not yet due
    \* useMediaQuery
    query,            \* the query argument of the last render
    matches,          \* the committed state of useState
    mqReturned,       \* what the last render returned
    mqUpdate,         \* the queued setMatches: {} or {the last value set}
    mqEffect,         \* TRUE while the effect of the last commit waits to be flushed
    mqMounted,        \* FALSE once the component has unmounted
    mediaMatches,     \* the browser's evaluation of each media query
    listeners,        \* the 'change' listeners of the hook on each query's MediaQueryList
    subscribed,       \* the query whose list the live effect instance listens on, or NoQuery
    mqChanges,        \* 'change' events delivered to the hook's listener (counted up to MaxChanges)
    hasMatchMedia,    \* TRUE when window.matchMedia exists
    mqError,          \* the error thrown out of the effect, or None
    mqMount,          \* the mount effect: "none", "ran", "processed" (its update rendered), "done"
    mqPrevQuery,      \* the query argument before it last changed, or NoQuery
    \* truncate
    str,              \* the string argument, a sequence of characters
    length,           \* the length argument
    suffix,           \* the suffix argument ('...' when omitted)
    trResult,         \* the returned string
    trPc,             \* "call" before the call, "done" after it
    \* formatDate
    date,             \* the date argument: a Date, a string or a number
    formatString,     \* the formatString argument, or omitted
    westOfUtc,        \* TRUE when local time is behind UTC
    fdResult,         \* the outcome: a returned string or a thrown error
    fdPc,             \* "call" before the call, "done" after it
    \* formatCurrency
    amount,           \* the amount argument: a sign and a magnitude in thousandths
    currency,         \* the currency argument, or Undefined when omitted
    locale,           \* the locale argument, or Undefined when omitted
    fcResult,         \* the returned string, a sequence of characters
    fcPc,             \* "call" before the call, "done" after it
    \* HomePage
    hpProps,          \* the props of the last render: the names of the props passed
    hpDom,            \* the rendered document: its elements in document order
    hpRenders,        \* renders so far (counted up to MaxRenders)
    \* next.config.js headers()
    hdPath,           \* the path of the request: its segments
    hdResponse,       \* the headers() entries set on the response
    hdPc,             \* "call" before the request is answered, "done" after it
    \* rateLimit (docs/SECURITY.md)
    tokenCache,       \* the LRU cache: token -> the cached count and the quanta since it was set
    rlFirst,          \* token -> quanta since the call that created the cached entry
    rlSeq,            \* token -> calls of check counted since that call, itself included
    rlLast,           \* the last call of check and the answer of POST, or NoCall
    \* middleware (docs/06-AUTHENTICATION.md)
    mwPathname,       \* req.nextUrl.pathname, a sequence of characters
    mwAuth,           \* req.auth: the session, or Null
    mwResponse,       \* the answer to the request, or NoResponse
    mwPc,             \* "call" before the request is answered, "done" after it
    mwRedirects,      \* redirects of the middleware the client has followed
    \* ProtectedRoute (docs/06-AUTHENTICATION.md)
    prStatus,         \* useSession().status at the last render
    prRole,           \* session.user.role at the last render: a role, Undefined, or Null without a session
    prRequiredRole,   \* the requiredRole prop, or Undefined
    prOutput,         \* what the last render returned, "unmounted" after the route is left
    prEffect,         \* TRUE while the effect of the last commit waits to be flushed
    prLocation,       \* the route: "here", or the target of the last router.push
    \* useIsMobile / useIsTablet / useIsDesktop
    bpWidth,          \* the width of the viewport in CSS pixels
    bpMatches,        \* what the three hooks return once settled: [mobile, tablet, desktop]
    bpPc,             \* "call" before the hooks have settled, "done" after
    \* formatFileSize
    bytes,            \* the bytes argument: its base-1024 digits, most significant first
    fsResult,         \* the returned string, a sequence of characters
    fsPc,             \* "call" before the call, "done" after it
    \* capitalize / titleCase
    tcStr,            \* the str argument, a sequence of characters
    tcResult,         \* titleCase(str)
    tcTwice,          \* titleCase(titleCase(str))
    tcPc,             \* "call" before the first call, "once" after it, "twice" after the second
    \* EmptyState
    esProps,          \* the props: title, description, actionLabel, actionHref, icon
    esDom,            \* the children rendered inside the outer div, in document order
    esPc,             \* "call" before the render, "done" after it
    \* hasPermission (docs/06-AUTHENTICATION.md)
    permUser,         \* the userRole argument
    permRequired,     \* the requiredRole argument
    permResult,       \* the returned boolean
    permPc,           \* "call" before the call, "done" after it
    \* POST /api/auth/register
    regBody,          \* the parsed body of each request: [email, valid]
    regPc,            \* where each request stands: "parse", "check", "hash", "create", "done"
    regResponse,      \* the response of each request, NoRegResponse before it is answered
    regUsers,         \* the rows of the user store, in the order of their creation
    regUniqueEmail    \* whether the user store refuses a second row with the same email

dbVars == <<value, delay, debouncedValue, dbReturned, dbUpdate, dbEffect,
            dbMounted, timers, handler, dbSince, dbPrev, dbInitial, dbMountTimer,
            dbDelayChange>>

mqVars == <<query, matches, mqReturned, mqUpdate, mqEffect, mqMounted, mediaMatches,
            listeners, subscribed, mqChanges, hasMatchMedia, mqError, mqMount,
            mqPrevQuery>>

trVars == <<str, length, suffix, trResult, trPc>>

fdVars == <<date, formatString, westOfUtc, fdResult, fdPc>>

fcVars == <<amount, currency, locale, fcResult, fcPc>>

hpVars == <<hpProps, hpDom, hpRenders>>

hdVars == <<hdPath, hdResponse, hdPc>>

rlVars == <<tokenCache, rlFirst, rlSeq, rlLast>>

mwVars == <<mwPathname, mwAuth, mwResponse, mwPc, mwRedirects>>

prVars == <<prStatus, prRole, prRequiredRole, prOutput, prEffect, prLocation>>

bpVars == <<bpWidth, bpMatches, bpPc>>

fsVars == <<bytes, fsResult, fsPc>>

tcVars == <<tcStr, tcResult, tcTwice, tcPc>>

esVars == <<esProps, esDom, esPc>>

permVars == <<permUser, permRequired, permResult, permPc>>

regVars == <<regBody, regPc, regResponse, regUsers, regUniqueEmail>>

vars == <<dbVars, mqVars, trVars, fdVars, fcVars, hpVars, hdVars, rlVars, mwVars, prVars, bpVars, fsVars, tcVars, esVars, permVars, regVars>>

None == "None"

(***************************************************************************)
(* Bounds of the model.                                                    *)
(***************************************************************************)
MaxDelay == 2
MaxTimers == 2
MaxChanges == 2
MaxStr == 3
MaxLength == 4
MaxMilli == 12
MaxRenders == 2
MaxSegments == 3
MaxCalls == 12
Interval == 2
MaxSmallWidth == 3
MaxByteDigits == 6
MaxTitleLen == 4
MaxRedirects == 3
MaxRequests == 2

Values == {"a", "b", "c"}
Delays == 0..MaxDelay
TimerIds == 1..MaxTimers
NoTimer == 0
Queries == {"(max-width: 768px)", "(min-width: 1025px)"}
NoQuery == "NoQuery"
NoTimeout == [val |-> None, rem |-> 0]
NoPrev == [val |-> None, delay |-> 0, held |-> 0]

(***************************************************************************)
(* useDebounce                                                             *)
(***************************************************************************)

Pending(ts) == {i \in TimerIds : ts[i] # NoTimeout}

\* setTimeout(callback, ms): the callback closes over the effect's value.
\* A free timeout id is taken (ids never collide with a pending timeout).
FreeId(ts) ==
    IF \E i \in TimerIds : ts[i] = NoTimeout
    THEN CHOOSE i \in TimerIds : ts[i] = NoTimeout /\ \A j \in TimerIds : ts[j] = NoTimeout => i <= j
    ELSE MaxTimers

\* clearTimeout(handler): a fired or unknown id is ignored.
NoClearTimeout(ts, h) == ts

ClearTimeout(ts, h) ==
    IF h = NoTimer THEN ts ELSE [ts EXCEPT ![h] = NoTimeout]

\* useState<T>(value): the state of the first render.
InitialStateUnset(v) == None

InitialState(v) == v

\* The dependency array [value, delay], compared with the previous render's.
DepsIgnoreValue(v, d) == d # delay

DepsIgnoreDelay(v, d) == v # value

DepsChanged(v, d) == <<v, d>> # <<value, delay>>

\* What the timeout callback hands to setDebouncedValue: the value its effect closed over.
CallbackKeepsState(t) == debouncedValue

TimeoutCallback(t) == t.val

\* The timeouts and the handler after the pending effect has been flushed:
\* the cleanup of the previous instance, then (while mounted) the effect body.
FlushedTimers ==
    IF ~dbEffect THEN timers
    ELSE LET cleared == ClearTimeout(timers, handler)
         IN  IF dbMounted
             THEN [cleared EXCEPT ![FreeId(cleared)] = [val |-> value, rem |-> delay]]
             ELSE cleared

FlushedHandler ==
    IF ~dbEffect THEN handler
    ELSE IF dbMounted THEN FreeId(ClearTimeout(timers, handler)) ELSE NoTimer

\* The timeout of the mount effect after the pending effect has been flushed:
\* the first run of the effect body starts it, the next cleanup clears it.
FlushedMountTimer ==
    IF ~dbEffect THEN dbMountTimer
    ELSE IF dbMountTimer = "none" THEN "pending"
    ELSE IF dbMountTimer = "pending" THEN "done"
    ELSE dbMountTimer

\* The live effect instance holds a timeout that is not yet due.
TimeoutNotDue(ts, h) == h # NoTimer /\ ts[h] # NoTimeout /\ ts[h].rem > 0

\* React flushes the passive effects of the last commit.
DebounceFlushEffects ==
    /\ dbEffect
    /\ timers' = FlushedTimers
    /\ handler' = FlushedHandler
    /\ dbEffect' = FALSE
    /\ dbPrev' = NoPrev
    /\ dbMountTimer' = FlushedMountTimer
    /\ UNCHANGED <<value, delay, debouncedValue, dbReturned, dbUpdate, dbMounted, dbSince,
                   dbInitial, dbDelayChange>>

\* A render of the component with the arguments (v, d): pending effects are
\* flushed first, the queued state update is applied, the state is returned,
\* and the effect is scheduled when its dependencies changed.
DebounceRender(v, d) ==
    /\ dbMounted
    /\ timers' = FlushedTimers
    /\ handler' = FlushedHandler
    /\ debouncedValue' = IF dbUpdate # None THEN dbUpdate ELSE debouncedValue
    /\ dbUpdate' = None
    /\ dbReturned' = debouncedValue'
    /\ value' = v
    /\ delay' = d
    /\ dbEffect' = DepsChanged(v, d)
    /\ dbSince' = IF <<v, d>> # <<value, delay>> THEN 0 ELSE dbSince
    /\ dbPrev' = IF <<v, d>> # <<value, delay>>
                 THEN [val |-> value, delay |-> delay, held |-> dbSince]
                 ELSE NoPrev
    /\ dbMountTimer' = IF FlushedMountTimer = "fired" THEN "rendered"
                       ELSE IF FlushedMountTimer = "rendered" THEN "done"
                       ELSE FlushedMountTimer
    /\ dbDelayChange' = IF <<v, d>> # <<value, delay>>
                        THEN v = value /\ TimeoutNotDue(FlushedTimers, FlushedHandler)
                        ELSE dbDelayChange
    /\ UNCHANGED <<dbMounted, dbInitial>>

\* The parent renders the component with new or unchanged arguments.
DebounceParentRender == \E v \in Values, d \in Delays : DebounceRender(v, d)

\* React renders the component again because a state update is queued.
DebounceStateRender == dbUpdate # None /\ DebounceRender(value, delay)

\* The browser runs the callback of a timeout that is due.
DebounceTimeout(i) ==
    /\ timers[i] # NoTimeout
    /\ timers[i].rem = 0
    /\ timers' = [timers EXCEPT ![i] = NoTimeout]
    /\ dbUpdate' = IF dbMounted THEN TimeoutCallback(timers[i]) ELSE dbUpdate
    /\ dbMountTimer' = IF dbMountTimer = "pending" /\ i = handler THEN "fired"
                       ELSE IF dbMountTimer \in {"fired", "rendered"} THEN "done"
                       ELSE dbMountTimer
    /\ UNCHANGED <<value, delay, debouncedValue, dbReturned, dbEffect, dbMounted,
                   handler, dbSince, dbPrev, dbInitial, dbDelayChange>>

DebounceTimerFires == \E i \in TimerIds : DebounceTimeout(i)

\* One clock quantum passes.
DebounceTick ==
    /\ ~dbEffect
    /\ timers' = [i \in TimerIds |->
                    IF timers[i] = NoTimeout THEN NoTimeout
                    ELSE [timers[i] EXCEPT !.rem = IF @ > 0 THEN @ - 1 ELSE 0]]
    /\ dbSince' = IF dbSince < MaxDelay THEN dbSince + 1 ELSE dbSince
    /\ UNCHANGED <<value, delay, debouncedValue, dbReturned, dbUpdate, dbEffect,
                   dbMounted, handler, dbPrev, dbInitial, dbMountTimer, dbDelayChange>>

\* The component unmounts: pending effects are flushed, the queued update is
\* dropped with the component, and the cleanup of the live effect is scheduled.
DebounceUnmount ==
    /\ dbMounted
    /\ timers' = FlushedTimers
    /\ handler' = FlushedHandler
    /\ dbMounted' = FALSE
    /\ dbEffect' = TRUE
    /\ dbUpdate' = None
    /\ dbPrev' = NoPrev
    /\ dbMountTimer' = IF FlushedMountTimer \in {"fired", "rendered"} THEN "done"
                       ELSE FlushedMountTimer
    /\ dbDelayChange' = FALSE
    /\ UNCHANGED <<value, delay, debouncedValue, dbReturned, dbSince, dbInitial>>

\* The state after the first render: useState(value) and a scheduled effect.
InitDebounce ==
    /\ value \in Values
    /\ delay \in Delays
    /\ debouncedValue = InitialState(value)
    /\ dbReturned = debouncedValue
    /\ dbUpdate = None
    /\ dbEffect = TRUE
    /\ dbMounted = TRUE
    /\ timers = [i \in TimerIds |-> NoTimeout]
    /\ handler = NoTimer
    /\ dbSince = 0
    /\ dbPrev = NoPrev
    /\ dbInitial = value
    /\ dbMountTimer = "none"
    /\ dbDelayChange = FALSE

\* The other parts at rest.
IdleDebounce ==
    /\ value = "a"
    /\ delay = 0
    /\ debouncedValue = "a"
    /\ dbReturned = "a"
    /\ dbUpdate = None
    /\ dbEffect = FALSE
    /\ dbMounted = FALSE
    /\ timers = [i \in TimerIds |-> NoTimeout]
    /\ handler = NoTimer
    /\ dbSince = 0
    /\ dbPrev = NoPrev
    /\ dbInitial = "a"
    /\ dbMountTimer = "done"
    /\ dbDelayChange = FALSE

(***************************************************************************)
(* useMediaQuery                                                           *)
(***************************************************************************)

\* media.addEventListener('change', listener), media = window.matchMedia(q).
AddEventListener(ls, q) == [ls EXCEPT ![q] = @ + 1]

\* media.removeEventListener('change', listener) of the effect instance that
\* listened on the list of query q.
KeepEventListener(ls, q) == ls

RemoveFromCurrentQuery(ls, q) ==
    IF q = NoQuery \/ ls[query] = 0 THEN ls ELSE [ls EXCEPT ![query] = @ - 1]

RemoveEventListener(ls, q) ==
    IF q = NoQuery \/ ls[q] = 0 THEN ls ELSE [ls EXCEPT ![q] = @ - 1]

\* useState(false): the state of the first render.
InitialMatchesTrue == TRUE

InitialMatches == FALSE

\* The dependency array [matches, query], compared with the previous render's.
MqDepsIgnoreQuery(m, q) == m # matches

MqDepsChanged(m, q) == <<m, q>> # <<matches, query>>

\* const media = window.matchMedia(query): calling what is undefined throws a
\* TypeError, and the rest of the effect body does not run.
MatchMediaGuarded == FALSE

MatchMediaThrows == ~hasMatchMedia

\* The pending effect is one whose body will run and throw.  React then tears
\* the component down; the effect that failed has returned no cleanup.
MqFlushThrows == mqEffect /\ mqMounted /\ MatchMediaThrows

\* The effect body's "set initial value": setMatches(media.matches) when
\* media.matches differs from the matches of its render.
SetInitialValue(upd) ==
    IF mediaMatches[query] # matches THEN {mediaMatches[query]} ELSE upd

\* The listeners, the live subscription and the update queue after the pending
\* effect has been flushed: the cleanup of the previous instance, then (while
\* mounted) the effect body.
MqFlushedListeners ==
    IF ~mqEffect THEN listeners
    ELSE LET removed == RemoveEventListener(listeners, subscribed)
         IN  IF mqMounted /\ hasMatchMedia
             THEN AddEventListener(removed, query)
             ELSE removed

MqFlushedSubscribed ==
    IF ~mqEffect THEN subscribed
    ELSE IF mqMounted /\ hasMatchMedia THEN query ELSE NoQuery

MqFlushedUpdate ==
    IF mqEffect /\ mqMounted /\ hasMatchMedia THEN SetInitialValue(mqUpdate) ELSE mqUpdate

\* The mount effect after the pending effect has been flushed.
MqFlushedMount ==
    IF mqEffect /\ mqMount = "none"
    THEN (IF MatchMediaThrows THEN "done" ELSE "ran")
    ELSE mqMount

\* React flushes the passive effects of the last commit.
MediaQueryFlushEffects ==
    /\ mqEffect
    /\ listeners' = MqFlushedListeners
    /\ subscribed' = MqFlushedSubscribed
    /\ mqUpdate' = MqFlushedUpdate
    /\ mqEffect' = FALSE
    /\ mqError' = IF MqFlushThrows THEN "TypeError" ELSE mqError
    /\ mqMounted' = IF MqFlushThrows THEN FALSE ELSE mqMounted
    /\ mqMount' = MqFlushedMount
    /\ UNCHANGED <<query, matches, mqReturned, mediaMatches, mqChanges, hasMatchMedia,
                   mqPrevQuery>>

\* A render of the component with the argument q.  React flushes the pending
\* effect before it renders again; when that effect throws there is no render.
MediaQueryRender(q) ==
    /\ mqMounted
    /\ ~MqFlushThrows
    /\ listeners' = MqFlushedListeners
    /\ subscribed' = MqFlushedSubscribed
    /\ matches' = IF MqFlushedUpdate # {}
                  THEN CHOOSE m \in MqFlushedUpdate : TRUE
                  ELSE matches
    /\ mqUpdate' = {}
    /\ mqReturned' = matches'
    /\ query' = q
    /\ mqEffect' = MqDepsChanged(matches', q)
    /\ mqMount' = IF MqFlushedMount = "ran" /\ q = query THEN "processed" ELSE "done"
    /\ mqPrevQuery' = IF q # query THEN query ELSE mqPrevQuery
    /\ UNCHANGED <<mqMounted, mediaMatches, mqChanges, hasMatchMedia, mqError>>

\* The parent renders the component with a new or an unchanged query.
MediaQueryParentRender == \E q \in Queries : MediaQueryRender(q)

\* React renders the component again because a state update is queued.
MediaQueryStateRender == mqUpdate # {} /\ MediaQueryRender(query)

\* The browser re-evaluates query q, its result flips, and the 'change' event
\* runs the listeners on its list: () => setMatches(media.matches).
MediaQueryChange(q) ==
    /\ mediaMatches' = [mediaMatches EXCEPT ![q] = ~@]
    /\ mqUpdate' = IF listeners[q] > 0 /\ mqMounted THEN {mediaMatches'[q]} ELSE mqUpdate
    /\ mqChanges' = IF listeners[q] > 0 /\ mqMounted /\ mqChanges < MaxChanges
                    THEN mqChanges + 1 ELSE mqChanges
    /\ UNCHANGED <<query, matches, mqReturned, mqEffect, mqMounted, listeners, subscribed,
                   hasMatchMedia, mqError, mqMount,
            mqPrevQuery>>

MediaQueryChangeEvent == \E q \in Queries : MediaQueryChange(q)

\* The component unmounts: pending effects are flushed, the queued update is
\* dropped with the component, and the cleanup of the live effect is scheduled.
MediaQueryUnmount ==
    /\ mqMounted
    /\ ~MqFlushThrows
    /\ listeners' = MqFlushedListeners
    /\ subscribed' = MqFlushedSubscribed
    /\ mqMounted' = FALSE
    /\ mqEffect' = TRUE
    /\ mqUpdate' = {}
    /\ mqMount' = "done"
    /\ UNCHANGED <<query, matches, mqReturned, mediaMatches, mqChanges, hasMatchMedia, mqError,
                   mqPrevQuery>>

\* The state after the first render: useState(false) and a scheduled effect.
InitMediaQuery ==
    /\ query \in Queries
    /\ matches = InitialMatches
    /\ mqReturned = matches
    /\ mqUpdate = {}
    /\ mqEffect = TRUE
    /\ mqMounted = TRUE
    /\ mediaMatches \in [Queries -> BOOLEAN]
    /\ listeners = [q \in Queries |-> 0]
    /\ subscribed = NoQuery
    /\ mqChanges = 0
    /\ hasMatchMedia \in BOOLEAN
    /\ mqError = None
    /\ mqMount = "none"
    /\ mqPrevQuery = NoQuery

IdleMediaQuery ==
    /\ query = "(max-width: 768px)"
    /\ matches = FALSE
    /\ mqReturned = FALSE
    /\ mqUpdate = {}
    /\ mqEffect = FALSE
    /\ mqMounted = FALSE
    /\ mediaMatches = [q \in Queries |-> FALSE]
    /\ listeners = [q \in Queries |-> 0]
    /\ subscribed = NoQuery
    /\ mqChanges = 0
    /\ hasMatchMedia = TRUE
    /\ mqError = None
    /\ mqMount = "done"
    /\ mqPrevQuery = NoQuery

(***************************************************************************)
(* truncate                                                                *)
(***************************************************************************)

\* The strings of the documented tests.
LongString ==
    <<"T", "h", "i", "s", " ", "i", "s", " ", "a", " ", "v", "e", "r", "y", " ",
      "l", "o", "n", "g", " ", "s", "t", "r", "i", "n", "g", " ", "t", "h", "a",
      "t", " ", "s", "h", "o", "u", "l", "d", " ", "b", "e", " ", "t", "r", "u",
      "n", "c", "a", "t", "e", "d">>
ShortString == <<"S", "h", "o", "r", "t">>
TestLength == 20

\* suffix: string = '...'
DefaultSuffix == <<".", ".", ".">>

TruncateStrings ==
    UNION {[1..n -> {"a", " "}] : n \in 0..MaxStr} \cup {LongString, ShortString}
TruncateLengths == 0..MaxLength \cup {TestLength}
TruncateSuffixes == {DefaultSuffix, <<>>, <<"~">>, <<" ", ">", ">">>}

\* String.prototype.substring(start, end): an argument below 0 counts as 0,
\* one above the length as the length, and the two are swapped when start > end.
Clamp(s, i) == IF i < 0 THEN 0 ELSE IF i > Len(s) THEN Len(s) ELSE i

Substring(s, start, end) ==
    LET a == Clamp(s, start)
        b == Clamp(s, end)
    IN  IF a <= b THEN SubSeq(s, a + 1, b) ELSE SubSeq(s, b + 1, a)

TruncateWhenNotLonger(s, n, suf) ==
    IF Len(s) < n THEN s
    ELSE Substring(s, 0, n - Len(suf)) \o suf

truncate(s, n, suf) ==
    IF Len(s) <= n THEN s
    ELSE Substring(s, 0, n - Len(suf)) \o suf

TruncateCall ==
    /\ trPc = "call"
    /\ trResult' = truncate(str, length, suffix)
    /\ trPc' = "done"
    /\ UNCHANGED <<str, length, suffix>>

InitTruncate ==
    /\ str \in TruncateStrings
    /\ length \in TruncateLengths
    /\ suffix \in TruncateSuffixes
    /\ trResult = <<>>
    /\ trPc = "call"

IdleTruncate ==
    /\ str = <<>>
    /\ length = 0
    /\ suffix = DefaultSuffix
    /\ trResult = <<>>
    /\ trPc = "done"

(***************************************************************************)
(* formatDate                                                              *)
(*                                                                         *)
(* A Date holds a time value or NaN.  Time values are counted in days      *)
(* since 1970-01-01T00:00Z; every Date of the model is a UTC midnight.     *)
(* date-fns renders the fields of local time, which fall on the previous   *)
(* calendar day where local time is behind UTC.  A format string is the    *)
(* sequence of its tokens and literals.                                    *)
(***************************************************************************)

NaN == [valid |-> FALSE, day |-> 0]
Time(n) == [valid |-> TRUE, day |-> n]

\* 1970-01-01, 1999-12-31, 2000-02-29, 2024-01-15, 2024-02-29, 2024-03-05, 2024-12-31
DayNumbers == {0, 10956, 11016, 19737, 19782, 19787, 20088}

DateStrings ==
    { <<"2", "0", "2", "4", "-", "0", "1", "-", "1", "5">>,
      <<"2", "0", "2", "4", "-", "0", "3", "-", "0", "5">>,
      <<"1", "9", "9", "9", "-", "1", "2", "-", "3", "1">>,
      <<"i", "n", "v", "a", "l", "i", "d">>,
      <<>> }

DateInputs ==
    [kind : {"Date", "number"}, time : {Time(n) : n \in DayNumbers} \cup {NaN}, text : {<<>>}]
    \cup [kind : {"string"}, time : {NaN}, text : DateStrings]

\* formatString: string = 'MMM dd, yyyy'
DefaultFormat == <<"MMM", " ", "dd", ",", " ", "yyyy">>
Omitted == <<"undefined">>
FormatStrings ==
    {Omitted, DefaultFormat, <<"MMMM", " ", "d", ",", " ", "yyyy">>, <<"yyyy", "-", "MM", "-", "dd">>}

IsDigit(c) == c \in {"0", "1", "2", "3", "4", "5", "6", "7", "8", "9"}
Digit(c) == CHOOSE n \in 0..9 : ToString(n) = c
Number2(s, i) == 10 * Digit(s[i]) + Digit(s[i + 1])

IsLeap(y) == (y % 4 = 0 /\ y % 100 # 0) \/ y % 400 = 0
DaysInMonth(y, m) ==
    IF m = 2 THEN (IF IsLeap(y) THEN 29 ELSE 28)
    ELSE IF m \in {4, 6, 9, 11} THEN 30 ELSE 31

\* The day number of a calendar date (proleptic Gregorian calendar).
DaysFromCivil(y, m, d) ==
    LET yy == IF m <= 2 THEN y - 1 ELSE y
        era == yy \div 400
        yoe == yy - era * 400
        mp == IF m > 2 THEN m - 3 ELSE m + 9
        doy == (153 * mp + 2) \div 5 + d - 1
        doe == yoe * 365 + yoe \div 4 - yoe \div 100 + doy
    IN  era * 146097 + doe - 719468

\* The calendar date of a day number.
CivilFromDays(n) ==
    LET z == n + 719468
        era == z \div 146097
        doe == z - era * 146097
        yoe == (doe - doe \div 1460 + doe \div 36524 - doe \div 146096) \div 365
        doy == doe - (365 * yoe + yoe \div 4 - yoe \div 100)
        mp == (5 * doy + 2) \div 153
        d == doy - (153 * mp + 2) \div 5 + 1
        m == IF mp < 10 THEN mp + 3 ELSE mp - 9
        y == yoe + era * 400 + (IF m <= 2 THEN 1 ELSE 0)
    IN  [year |-> y, month |-> m, day |-> d]

\* new Date(string): the date-only form YYYY-MM-DD is a UTC midnight; a string
\* that is no date at all gives an invalid Date.
DateFromString(s) ==
    IF /\ Len(s) = 10
       /\ s[5] = "-" /\ s[8] = "-"
       /\ \A i \in {1, 2, 3, 4, 6, 7, 9, 10} : IsDigit(s[i])
    THEN LET y == 100 * Number2(s, 1) + Number2(s, 3)
             m == Number2(s, 6)
             d == Number2(s, 9)
         IN  IF m \in 1..12 /\ d >= 1 /\ d <= DaysInMonth(y, m)
             THEN Time(DaysFromCivil(y, m, d))
             ELSE NaN
    ELSE NaN

\* new Date(number): the time value is the number; NaN gives an invalid Date.
DateFromNumber(t) == t

\* getFullYear(), getMonth() + 1 and getDate() of a valid Date, in local time.
LocalFields(t) == CivilFromDays(IF westOfUtc THEN t.day - 1 ELSE t.day)

MonthNames ==
    <<"January", "February", "March", "April", "May", "June", "July", "August",
      "September", "October", "November", "December">>
MonthAbbreviations ==
    <<"Jan", "Feb", "Mar", "Apr", "May", "Jun", "Jul", "Aug", "Sep", "Oct", "Nov", "Dec">>

TwoDigits(n) == IF n < 10 THEN "0" \o ToString(n) ELSE ToString(n)
FourDigits(n) ==
    IF n < 10 THEN "000" \o ToString(n)
    ELSE IF n < 100 THEN "00" \o ToString(n)
    ELSE IF n < 1000 THEN "0" \o ToString(n)
    ELSE ToString(n)

\* One token of a date-fns (v2 and later) format string.
FormatToken(tok, f) ==
    CASE tok = "MMMM" -> MonthNames[f.month]
      [] tok = "MMM" -> MonthAbbreviations[f.month]
      [] tok = "MM" -> TwoDigits(f.month)
      [] tok = "dd" -> TwoDigits(f.day)
      [] tok = "d" -> ToString(f.day)
      [] tok = "yyyy" -> FourDigits(f.year)
      [] OTHER -> tok

RECURSIVE FormatTokens(_, _)
FormatTokens(toks, f) ==
    IF toks = <<>> THEN ""
    ELSE FormatToken(Head(toks), f) \o FormatTokens(Tail(toks), f)

Returned(text) == [throws |-> FALSE, text |-> text]
RangeError == [throws |-> TRUE, text |-> "Invalid time value"]

\* format of date-fns: throws a RangeError for an invalid Date.
dateFnsFormat(dateObj, toks) ==
    IF ~dateObj.valid THEN RangeError
    ELSE Returned(FormatTokens(toks, LocalFields(dateObj)))

FormatDateSwallowsInvalid(d, fmt) ==
    LET fs == IF fmt = Omitted THEN DefaultFormat ELSE fmt
        dateObj == IF d.kind = "string" THEN DateFromString(d.text)
                   ELSE IF d.kind = "number" THEN DateFromNumber(d.time)
                   ELSE d.time
    IN  IF ~dateObj.valid THEN Returned("Invalid Date") ELSE dateFnsFormat(dateObj, fs)

formatDate(d, fmt) ==
    LET fs == IF fmt = Omitted THEN DefaultFormat ELSE fmt
        dateObj == IF d.kind = "string" THEN DateFromString(d.text)
                   ELSE IF d.kind = "number" THEN DateFromNumber(d.time)
                   ELSE d.time
    IN  dateFnsFormat(dateObj, fs)

FormatDateCall ==
    /\ fdPc = "call"
    /\ fdResult' = formatDate(date, formatString)
    /\ fdPc' = "done"
    /\ UNCHANGED <<date, formatString, westOfUtc>>

InitFormatDate ==
    /\ date \in DateInputs
    /\ formatString \in FormatStrings
    /\ westOfUtc \in BOOLEAN
    /\ fdResult = Returned("")
    /\ fdPc = "call"

IdleFormatDate ==
    /\ date = [kind |-> "Date", time |-> NaN, text |-> <<>>]
    /\ formatString = Omitted
    /\ westOfUtc = FALSE
    /\ fdResult = Returned("")
    /\ fdPc = "done"

(***************************************************************************)
(* formatCurrency                                                          *)
(*                                                                         *)
(* A Number is a sign and a magnitude in thousandths, which is enough to   *)
(* see the rounding to the currency's minor unit; -0 is a Number of its    *)
(* own.  Intl.NumberFormat is computed as ICU does for the locales and     *)
(* currencies below.                                                       *)
(***************************************************************************)

Undefined == "undefined"
Nbsp == "nbsp"      \* U+00A0

Number(neg, milli) == [neg |-> neg, milli |-> milli]

\* The amounts of the documented tests: 1234.56, 0, -100.
TestAmounts == {Number(FALSE, 1234560), Number(FALSE, 0), Number(TRUE, 100000)}

Amounts ==
    TestAmounts \cup
    {Number(s, m) : s \in BOOLEAN,
                    m \in (0..MaxMilli) \cup {994, 995, 999994, 999995, 1234565, 1234567895}}
Currencies == {Undefined, "USD", "CAD", "CHF"}
Locales == {Undefined, "en-US", "de-DE"}

DecimalDigit(d) == CASE d = 0 -> "0" [] d = 1 -> "1" [] d = 2 -> "2" [] d = 3 -> "3"
                     [] d = 4 -> "4" [] d = 5 -> "5" [] d = 6 -> "6" [] d = 7 -> "7"
                     [] d = 8 -> "8" [] d = 9 -> "9"

RECURSIVE Digits(_)
Digits(n) == IF n < 10 THEN <<DecimalDigit(n)>>
             ELSE Append(Digits(n \div 10), DecimalDigit(n % 10))

\* The digits of an integer in groups of three, counted from the right.
RECURSIVE Grouped(_, _)
Grouped(ds, sep) ==
    IF Len(ds) <= 3 THEN ds
    ELSE Grouped(SubSeq(ds, 1, Len(ds) - 3), sep) \o <<sep>>
         \o SubSeq(ds, Len(ds) - 2, Len(ds))

\* Rounding to the minor unit: half away from zero (roundingMode halfExpand).
RoundToCents(milli) == (milli + 5) \div 10

GroupSeparator(loc) == IF loc = "de-DE" THEN "." ELSE ","
DecimalSeparator(loc) == IF loc = "de-DE" THEN "," ELSE "."

CurrencySymbol(cur) ==
    CASE cur = "USD" -> <<"$">>
      [] cur = "CAD" -> <<"C", "A", "$">>
      [] cur = "CHF" -> <<"C", "H", "F">>

FormattedNumber(loc, milli) ==
    LET cents == RoundToCents(milli)
    IN  Grouped(Digits(cents \div 100), GroupSeparator(loc))
        \o <<DecimalSeparator(loc)>>
        \o <<DecimalDigit((cents % 100) \div 10), DecimalDigit(cents % 10)>>

\* new Intl.NumberFormat(locale, { style: 'currency', currency }).format(amount):
\* en-US puts the symbol before the number (a symbol ending in a letter is set
\* off by a no-break space), de-DE after it; the minus sign comes first.
IntlCurrencyFormat(loc, cur, amt) ==
    LET sign == IF amt.neg THEN <<"-">> ELSE <<>>
        sym  == CurrencySymbol(cur)
        num  == FormattedNumber(loc, amt.milli)
    IN  IF loc = "de-DE" THEN sign \o num \o <<Nbsp>> \o sym
        ELSE sign \o sym \o (IF cur = "CHF" THEN <<Nbsp>> ELSE <<>>) \o num

FormatCurrencyDefaultLocaleDe(amt, cur, loc) ==
    IntlCurrencyFormat(IF loc = Undefined THEN "de-DE" ELSE loc,
                       IF cur = Undefined THEN "USD" ELSE cur, amt)

\* currency: string = 'USD', locale: string = 'en-US'
formatCurrency(amt, cur, loc) ==
    IntlCurrencyFormat(IF loc = Undefined THEN "en-US" ELSE loc,
                       IF cur = Undefined THEN "USD" ELSE cur, amt)

FormatCurrencyCall ==
    /\ fcPc = "call"
    /\ fcResult' = formatCurrency(amount, currency, locale)
    /\ fcPc' = "done"
    /\ UNCHANGED <<amount, currency, locale>>

InitFormatCurrency ==
    /\ amount \in Amounts
    /\ currency \in Currencies
    /\ locale \in Locales
    /\ fcResult = <<>>
    /\ fcPc = "call"

IdleFormatCurrency ==
    /\ amount = Number(FALSE, 0)
    /\ currency = Undefined
    /\ locale = Undefined
    /\ fcResult = <<>>
    /\ fcPc = "done"

(***************************************************************************)
(* HomePage                                                                *)
(*                                                                         *)
(* The rendered document is the sequence of its elements in document       *)
(* order, each with its tag and its own text (the text nodes that are its  *)
(* direct children, JSX whitespace trimmed).  An emoji is one character,   *)
(* written by its name.                                                    *)
(***************************************************************************)

Element(tag, text) == [tag |-> tag, text |-> text]

\* What a caller may pass: Next.js hands a page params and searchParams.
PropNames == {"params", "searchParams", "children", "className", "title", "id"}

HomePageWithSecondComponentsCard(props) ==
    <<
        Element("main", <<>>),
        Element("div", <<>>),
        Element("h1",
                <<"rocket", " ", "N", "e", "x", "t", ".", "j", "s", " ", "S", "t",
                  "a", "n", "d", "a", "r", "d", "i", "z", "a", "t", "i", "o", "n",
                  " ", "T", "e", "m", "p", "l", "a", "t", "e">>),
        Element("p",
                <<"W", "e", "l", "c", "o", "m", "e", " ", "t", "o", " ", "y", "o",
                  "u", "r", " ", "p", "r", "o", "d", "u", "c", "t", "i", "o", "n",
                  "-", "r", "e", "a", "d", "y", " ", "N", "e", "x", "t", ".", "j",
                  "s", " ", "a", "p", "p", "l", "i", "c", "a", "t", "i", "o", "n",
                  "!">>),
        Element("div", <<>>),
        Element("a",
                <<"G", "e", "t", " ", "S", "t", "a", "r", "t", "e", "d">>),
        Element("a",
                <<"V", "i", "e", "w", " ", "o", "n", " ", "G", "i", "t", "H", "u",
                  "b">>),
        Element("div", <<>>),
        Element("div", <<>>),
        Element("div", <<>>),
        Element("h2",
                <<"package", " ", "C", "o", "m", "p", "o", "n", "e", "n", "t", "s">>),
        Element("p",
                <<"s", "h", "a", "d", "c", "n", "/", "u", "i", " ", "a", "n", "d",
                  " ", "D", "a", "i", "s", "y", "U", "I", " ", "p", "r", "e", "-",
                  "c", "o", "n", "f", "i", "g", "u", "r", "e", "d">>),
        Element("div", <<>>),
        Element("div", <<>>),
        Element("h2",
                <<"lock", " ", "C", "o", "m", "p", "o", "n", "e", "n", "t", "s">>),
        Element("p",
                <<"N", "e", "x", "t", "A", "u", "t", "h", ".", "j", "s", " ", "r",
                  "e", "a", "d", "y", " ", "t", "o", " ", "u", "s", "e">>),
        Element("div", <<>>),
        Element("div", <<>>),
        Element("h2",
                <<"check", " ", "B", "e", "s", "t", " ", "P", "r", "a", "c", "t",
                  "i", "c", "e", "s">>),
        Element("p",
                <<"E", "S", "L", "i", "n", "t", ",", " ", "P", "r", "e", "t", "t",
                  "i", "e", "r", ",", " ", "H", "u", "s", "k", "y", " ", "c", "o",
                  "n", "f", "i", "g", "u", "r", "e", "d">>)
    >>

\* export default function HomePage(): no parameter, no hook.
HomePage(props) ==
    <<
        Element("main", <<>>),
        Element("div", <<>>),
        Element("h1",
                <<"rocket", " ", "N", "e", "x", "t", ".", "j", "s", " ", "S", "t",
                  "a", "n", "d", "a", "r", "d", "i", "z", "a", "t", "i", "o", "n",
                  " ", "T", "e", "m", "p", "l", "a", "t", "e">>),
        Element("p",
                <<"W", "e", "l", "c", "o", "m", "e", " ", "t", "o", " ", "y", "o",
                  "u", "r", " ", "p", "r", "o", "d", "u", "c", "t", "i", "o", "n",
                  "-", "r", "e", "a", "d", "y", " ", "N", "e", "x", "t", ".", "j",
                  "s", " ", "a", "p", "p", "l", "i", "c", "a", "t", "i", "o", "n",
                  "!">>),
        Element("div", <<>>),
        Element("a",
                <<"G", "e", "t", " ", "S", "t", "a", "r", "t", "e", "d">>),
        Element("a",
                <<"V", "i", "e", "w", " ", "o", "n", " ", "G", "i", "t", "H", "u",
                  "b">>),
        Element("div", <<>>),
        Element("div", <<>>),
        Element("div", <<>>),
        Element("h2",
                <<"package", " ", "C", "o", "m", "p", "o", "n", "e", "n", "t", "s">>),
        Element("p",
                <<"s", "h", "a", "d", "c", "n", "/", "u", "i", " ", "a", "n", "d",
                  " ", "D", "a", "i", "s", "y", "U", "I", " ", "p", "r", "e", "-",
                  "c", "o", "n", "f", "i", "g", "u", "r", "e", "d">>),
        Element("div", <<>>),
        Element("div", <<>>),
        Element("h2",
                <<"lock", " ", "A", "u", "t", "h", "e", "n", "t", "i", "c", "a", "t",
                  "i", "o", "n">>),
        Element("p",
                <<"N", "e", "x", "t", "A", "u", "t", "h", ".", "j", "s", " ", "r",
                  "e", "a", "d", "y", " ", "t", "o", " ", "u", "s", "e">>),
        Element("div", <<>>),
        Element("div", <<>>),
        Element("h2",
                <<"check", " ", "B", "e", "s", "t", " ", "P", "r", "a", "c", "t",
                  "i", "c", "e", "s">>),
        Element("p",
                <<"E", "S", "L", "i", "n", "t", ",", " ", "P", "r", "e", "t", "t",
                  "i", "e", "r", ",", " ", "H", "u", "s", "k", "y", " ", "c", "o",
                  "n", "f", "i", "g", "u", "r", "e", "d">>)
    >>

HomePageRender ==
    /\ \E props \in SUBSET PropNames :
          /\ hpProps' = props
          /\ hpDom' = HomePage(props)
    /\ hpRenders' = IF hpRenders < MaxRenders THEN hpRenders + 1 ELSE hpRenders

InitHomePage ==
    /\ hpProps = {}
    /\ hpDom = <<>>
    /\ hpRenders = 0

IdleHomePage ==
    /\ hpProps = {}
    /\ hpDom = <<>>
    /\ hpRenders = MaxRenders

\* The queries of the tests.
HeadingTags == {"h1", "h2", "h3", "h4", "h5", "h6"}

UpperCase == <<"A", "B", "C", "D", "E", "F", "G", "H", "I", "J", "K", "L", "M",
               "N", "O", "P", "Q", "R", "S", "T", "U", "V", "W", "X", "Y", "Z">>
LowerCase == <<"a", "b", "c", "d", "e", "f", "g", "h", "i", "j", "k", "l", "m",
               "n", "o", "p", "q", "r", "s", "t", "u", "v", "w", "x", "y", "z">>
ToLowerCase(c) ==
    IF \E i \in 1..26 : UpperCase[i] = c
    THEN LowerCase[CHOOSE i \in 1..26 : UpperCase[i] = c]
    ELSE c

\* RegExp /re/i of literal characters and '.', tested against a text.
RegExpTest(re, text) ==
    \E start \in 0..(Len(text) - Len(re)) :
        \A j \in 1..Len(re) :
            \/ re[j] = "."
            \/ ToLowerCase(re[j]) = ToLowerCase(text[start + j])

TitlePattern ==
    <<"N", "e", "x", "t", ".", "j", "s", " ", "S", "t", "a", "n", "d",
      "a", "r", "d", "i", "z", "a", "t", "i", "o", "n", " ", "T", "e",
      "m", "p", "l", "a", "t", "e">>
ComponentsPattern ==
    <<"C", "o", "m", "p", "o", "n", "e", "n", "t", "s">>
AuthenticationPattern ==
    <<"A", "u", "t", "h", "e", "n", "t", "i", "c", "a", "t", "i", "o",
      "n">>
BestPracticesPattern ==
    <<"B", "e", "s", "t", " ", "P", "r", "a", "c", "t", "i", "c", "e",
      "s">>

\* screen.getAllByRole('heading', { name: re }): the heading elements whose
\* accessible name, their text content, matches.
AllByRoleHeading(dom, re) ==
    {i \in 1..Len(dom) : dom[i].tag \in HeadingTags /\ RegExpTest(re, dom[i].text)}

\* screen.getAllByText(re): the elements whose own text matches.
AllByText(dom, re) ==
    {i \in 1..Len(dom) : dom[i].text # <<>> /\ RegExpTest(re, dom[i].text)}

(***************************************************************************)
(* next.config.js: headers()                                               *)
(***************************************************************************)

Header(key, val) == [key |-> key, value |-> val]

\* source: '/:path*' is a literal prefix of segments (none here) followed by
\* zero or more segments.
PathStar(lead) == [prefix |-> lead, rest |-> "*"]

\* async headers()
headers ==
    <<[source  |-> PathStar(<<>>),
       headers |-> {Header("X-DNS-Prefetch-Control", "on"),
                    Header("Strict-Transport-Security",
                           "max-age=63072000; includeSubDomains; preload"),
                    Header("X-Frame-Options", "SAMEORIGIN"),
                    Header("X-Content-Type-Options", "nosniff"),
                    Header("X-XSS-Protection", "1; mode=block"),
                    Header("Referrer-Policy", "origin-when-cross-origin")}]>>

\* docs/SECURITY.md, Complete Security Headers Configuration
securityHeaders ==
    {Header("X-DNS-Prefetch-Control", "on"),
     Header("Strict-Transport-Security", "max-age=63072000; includeSubDomains; preload"),
     Header("X-Frame-Options", "SAMEORIGIN"),
     Header("X-Content-Type-Options", "nosniff"),
     Header("X-XSS-Protection", "1; mode=block"),
     Header("Referrer-Policy", "origin-when-cross-origin"),
     Header("Permissions-Policy", "camera=(), microphone=(), geolocation=()")}

SourceMatches(source, path) ==
    /\ Len(path) >= Len(source.prefix)
    /\ SubSeq(path, 1, Len(source.prefix)) = source.prefix
    /\ (source.rest = "*" \/ Len(path) = Len(source.prefix))

\* Next.js sets the headers of every entry whose source matches the path.
HeadersFor(path) ==
    UNION {headers[i].headers : i \in {j \in 1..Len(headers) : SourceMatches(headers[j].source, path)}}

Segments == {"api", "dashboard", "login", "_next"}
Paths == UNION {[1..n -> Segments] : n \in 0..MaxSegments}

HeadersRequest ==
    /\ hdPc = "call"
    /\ hdResponse' = HeadersFor(hdPath)
    /\ hdPc' = "done"
    /\ UNCHANGED hdPath

InitHeaders ==
    /\ hdPath \in Paths
    /\ hdResponse = {}
    /\ hdPc = "call"

IdleHeaders ==
    /\ hdPath = <<>>
    /\ hdResponse = {}
    /\ hdPc = "done"

(***************************************************************************)
(* rateLimit (docs/SECURITY.md)                                            *)
(*                                                                         *)
(* Time is counted in quanta; the interval (ttl) is Interval quanta long.  *)
(* An entry of the LRU cache is stale once its age has reached the ttl;    *)
(* set() restarts the age of the entry.                                    *)
(***************************************************************************)

\* limiter.check(10, ip)
Limit == 10

Tokens == {"203.0.113.7", "127.0.0.1"}
NoEntry == [count |-> 0, age |-> 0]
NoCall == [token |-> None, seq |-> 0, first |-> 0, status |-> 0]

\* tokenCache.get(token) || [0]
CacheGet(cache, token) ==
    IF cache[token].count = 0 \/ cache[token].age >= Interval THEN 0
    ELSE cache[token].count

\* tokenCache.set(token, [n])
CacheSet(cache, token, n) == [cache EXCEPT ![token] = [count |-> n, age |-> 0]]

\* The count stored by check(limit, token).
CheckCount(cache, token) == CacheGet(cache, token) + 1

\* check(limit, token) rejects: never on a fresh entry, else when the
\* incremented count has reached limit.
CheckRejects(cache, limit, token) ==
    /\ CacheGet(cache, token) # 0
    /\ CheckCount(cache, token) >= limit

\* POST: await limiter.check(10, ip), 429 when it rejects.
RateLimitPost ==
    \E ip \in Tokens :
        LET fresh == CacheGet(tokenCache, ip) = 0
            seq   == IF fresh THEN 1 ELSE rlSeq[ip] + 1
            first == IF fresh THEN 0 ELSE rlFirst[ip]
        IN  /\ seq <= MaxCalls
            /\ tokenCache' = CacheSet(tokenCache, ip, CheckCount(tokenCache, ip))
            /\ rlSeq' = [rlSeq EXCEPT ![ip] = seq]
            /\ rlFirst' = [rlFirst EXCEPT ![ip] = first]
            /\ rlLast' = [token  |-> ip, seq |-> seq, first |-> first,
                          status |-> IF CheckRejects(tokenCache, Limit, ip)
                                     THEN 429 ELSE 200]

\* A quantum of time passes.
RateLimitTick ==
    /\ tokenCache' = [t \in Tokens |->
                        [tokenCache[t] EXCEPT !.age = IF @ < Interval THEN @ + 1 ELSE @]]
    /\ rlFirst' = [t \in Tokens |-> IF rlFirst[t] < Interval THEN rlFirst[t] + 1
                                    ELSE rlFirst[t]]
    /\ UNCHANGED <<rlSeq, rlLast>>

InitRateLimit ==
    /\ tokenCache = [t \in Tokens |-> NoEntry]
    /\ rlFirst = [t \in Tokens |-> 0]
    /\ rlSeq = [t \in Tokens |-> 0]
    /\ rlLast = NoCall

IdleRateLimit ==
    /\ tokenCache = [t \in Tokens |-> NoEntry]
    /\ rlFirst = [t \in Tokens |-> Interval]
    /\ rlSeq = [t \in Tokens |-> MaxCalls]
    /\ rlLast = NoCall

(***************************************************************************)
(* middleware (docs/06-AUTHENTICATION.md)                                  *)
(***************************************************************************)

Null == "null"

\* lib/constants.ts: ROUTES
HomeRoute == <<"/">>
LoginRoute == <<"/", "l", "o", "g", "i", "n">>
RegisterRoute == <<"/", "r", "e", "g", "i", "s", "t", "e", "r">>
DashboardRoute == <<"/", "d", "a", "s", "h", "b", "o", "a", "r", "d">>
ProfileRoute == <<"/", "p", "r", "o", "f", "i", "l", "e">>
SettingsRoute == <<"/", "s", "e", "t", "t", "i", "n", "g", "s">>

ProtectedRoutesWithLogin == {DashboardRoute, ProfileRoute, SettingsRoute, LoginRoute}

protectedRoutes == {DashboardRoute, ProfileRoute, SettingsRoute}
authRoutes == {LoginRoute, RegisterRoute}

\* matcher: "/((?!api|_next/static|_next/image|favicon.ico).*)"
MatcherExcluded ==
    {<<"a", "p", "i">>,
     <<"_", "n", "e", "x", "t", "/", "s", "t", "a", "t", "i", "c">>,
     <<"_", "n", "e", "x", "t", "/", "i", "m", "a", "g", "e">>,
     <<"f", "a", "v", "i", "c", "o", "n", ".", "i", "c", "o">>}

PathIsExactly(s, lead) == s = lead

\* String.prototype.startsWith
StartsWith(s, lead) ==
    /\ Len(s) >= Len(lead)
    /\ \A i \in 1..Len(lead) : s[i] = lead[i]

MatcherMatches(pathname) ==
    /\ StartsWith(pathname, <<"/">>)
    /\ ~\E x \in MatcherExcluded : StartsWith(Tail(pathname), x)

\* NextResponse.redirect(url): the path of the url and its search parameters.
Redirect(pathname, searchParams) ==
    [kind |-> "redirect", pathname |-> pathname, searchParams |-> searchParams]
\* NextResponse.next(), also the outcome when the matcher leaves the request out.
PassThrough == [kind |-> "next", pathname |-> <<>>, searchParams |-> {}]
NoResponse == [kind |-> "none", pathname |-> <<>>, searchParams |-> {}]

middleware(pathname, reqAuth) ==
    LET isLoggedIn == reqAuth # Null
        isProtectedRoute == \E route \in protectedRoutes : StartsWith(pathname, route)
    IN  IF isProtectedRoute /\ ~isLoggedIn
        THEN Redirect(LoginRoute, {<<"callbackUrl", pathname>>})
        ELSE IF pathname \in authRoutes /\ isLoggedIn
        THEN Redirect(DashboardRoute, {})
        ELSE PassThrough

\* Next.js runs the middleware on the requests its matcher selects.
HandleRequest(pathname, reqAuth) ==
    IF MatcherMatches(pathname) THEN middleware(pathname, reqAuth) ELSE PassThrough

PathHeads ==
    {HomeRoute, LoginRoute, RegisterRoute, DashboardRoute, ProfileRoute, SettingsRoute,
     <<"/", "a", "p", "i">>, <<"/", "_", "n", "e", "x", "t", "/", "s", "t", "a", "t", "i", "c">>,
     <<"/", "a", "b", "o", "u", "t">>, <<"/", "D", "a", "s", "h", "b", "o", "a", "r", "d">>}
PathTails == {<<>>, <<"/">>, <<"x">>, <<"/", "x">>, DashboardRoute}
Pathnames == {h \o t : h \in PathHeads, t \in PathTails}
Sessions == {"user-session", "admin-session"}

MiddlewareRequest ==
    /\ mwPc = "call"
    /\ mwResponse' = HandleRequest(mwPathname, mwAuth)
    /\ mwPc' = "done"
    /\ UNCHANGED <<mwPathname, mwAuth, mwRedirects>>

\* The client follows a redirect: a new request for the path of the redirect
\* url, with the same login state.
MiddlewareFollowRedirect ==
    /\ mwPc = "done"
    /\ mwResponse.kind = "redirect"
    /\ mwRedirects < MaxRedirects
    /\ mwPathname' = mwResponse.pathname
    /\ mwResponse' = NoResponse
    /\ mwPc' = "call"
    /\ mwRedirects' = mwRedirects + 1
    /\ UNCHANGED mwAuth

InitMiddleware ==
    /\ mwPathname \in Pathnames
    /\ mwAuth \in Sessions \cup {Null}
    /\ mwResponse = NoResponse
    /\ mwPc = "call"
    /\ mwRedirects = 0

IdleMiddleware ==
    /\ mwPathname = HomeRoute
    /\ mwAuth = Null
    /\ mwResponse = NoResponse
    /\ mwPc = "done"
    /\ mwRedirects = 0

(***************************************************************************)
(* ProtectedRoute (docs/06-AUTHENTICATION.md)                              *)
(***************************************************************************)

Roles == {"admin", "moderator", "user"}
SessionStatuses == {"loading", "authenticated", "unauthenticated"}

\* What useSession can return: a session only when authenticated; its user
\* may carry no role.
SessionStates ==
    {<<"loading", Null>>, <<"unauthenticated", Null>>}
    \cup {<<"authenticated", r>> : r \in Roles \cup {Undefined}}

\* The three returns of the component.
ProtectedRouteOutput(status) ==
    IF status = "loading" THEN "LoadingSpinner"
    ELSE IF status = "unauthenticated" THEN "null"
    ELSE "children"

\* requiredRole && session?.user?.role && session.user.role !== requiredRole
RoleMismatch(role, requiredRole) ==
    /\ requiredRole # Undefined
    /\ role \notin {Undefined, Null}
    /\ role # requiredRole

\* The route after the effect body has run: its router.push calls in order.
ProtectedRouteEffect(status, role, requiredRole, location) ==
    IF RoleMismatch(role, requiredRole) THEN "/unauthorized"
    ELSE IF status = "unauthenticated" THEN "/login"
    ELSE location

\* React flushes the passive effects of the last commit.
ProtectedRouteFlushEffects ==
    /\ prEffect
    /\ prOutput # "unmounted"
    /\ prLocation' = ProtectedRouteEffect(prStatus, prRole, prRequiredRole, prLocation)
    /\ prEffect' = FALSE
    /\ UNCHANGED <<prStatus, prRole, prRequiredRole, prOutput>>

\* useSession reports a new state and React renders the component again; the
\* pending effect is flushed first, and the dependencies [status, session]
\* have changed.
ProtectedRouteSessionChange ==
    /\ prOutput # "unmounted"
    /\ \E s \in SessionStates :
          /\ s # <<prStatus, prRole>>
          /\ prStatus' = s[1]
          /\ prRole' = s[2]
          /\ prOutput' = ProtectedRouteOutput(s[1])
    /\ prLocation' = IF prEffect
                     THEN ProtectedRouteEffect(prStatus, prRole, prRequiredRole, prLocation)
                     ELSE prLocation
    /\ prEffect' = TRUE
    /\ UNCHANGED prRequiredRole

\* The router carries out the navigation that was pushed: the page of the
\* component is left and the component unmounts.
ProtectedRouteNavigate ==
    /\ prLocation # "here"
    /\ prOutput # "unmounted"
    /\ prOutput' = "unmounted"
    /\ prEffect' = FALSE
    /\ UNCHANGED <<prStatus, prRole, prRequiredRole, prLocation>>

\* The state after the first render.
InitProtectedRoute ==
    /\ \E s \in SessionStates :
          /\ prStatus = s[1]
          /\ prRole = s[2]
          /\ prOutput = ProtectedRouteOutput(s[1])
    /\ prRequiredRole \in Roles \cup {Undefined}
    /\ prEffect = TRUE
    /\ prLocation = "here"

IdleProtectedRoute ==
    /\ prStatus = "loading"
    /\ prRole = Null
    /\ prRequiredRole = Undefined
    /\ prOutput = "unmounted"
    /\ prEffect = FALSE
    /\ prLocation = "here"

(***************************************************************************)
(* useIsMobile / useIsTablet / useIsDesktop                                *)
(*                                                                         *)
(* A media query is the conjunction of its width features; a settled       *)
(* useMediaQuery returns the browser's evaluation of its query (C5).       *)
(***************************************************************************)

MinWidth(px) == [feature |-> "min-width", px |-> px]
MaxWidth(px) == [feature |-> "max-width", px |-> px]

TabletQueryFrom768 == {MinWidth(768), MaxWidth(1024)}

\* '(max-width: 768px)'
MobileQuery == {MaxWidth(768)}
\* '(min-width: 769px) and (max-width: 1024px)'
TabletQuery == {MinWidth(769), MaxWidth(1024)}
\* '(min-width: 1025px)'
DesktopQuery == {MinWidth(1025)}

\* window.matchMedia(query).matches at a viewport width.
MediaMatches(q, width) ==
    \A f \in q : IF f.feature = "min-width" THEN width >= f.px ELSE width <= f.px

Widths == (0..MaxSmallWidth) \cup (750..790) \cup (1005..1045) \cup {1920}

BreakpointsSettle ==
    /\ bpPc = "call"
    /\ bpMatches' = [mobile  |-> MediaMatches(MobileQuery, bpWidth),
                     tablet  |-> MediaMatches(TabletQuery, bpWidth),
                     desktop |-> MediaMatches(DesktopQuery, bpWidth)]
    /\ bpPc' = "done"
    /\ UNCHANGED bpWidth

\* Before the effects have run every hook returns useState(false).
InitBreakpoints ==
    /\ bpWidth \in Widths
    /\ bpMatches = [mobile |-> FALSE, tablet |-> FALSE, desktop |-> FALSE]
    /\ bpPc = "call"

IdleBreakpoints ==
    /\ bpWidth = 0
    /\ bpMatches = [mobile |-> FALSE, tablet |-> FALSE, desktop |-> FALSE]
    /\ bpPc = "done"

(***************************************************************************)
(* formatFileSize                                                          *)
(*                                                                         *)
(* A byte count is written in base 1024, most significant digit first and  *)
(* without leading zeros (0 is <<0>>), so that counts up to                *)
(* Number.MAX_SAFE_INTEGER = 8 * 1024^5 - 1 fit the model's integers.      *)
(* Dividing by a power of 1024 is exact in a double, and toFixed(2) rounds *)
(* that exact quotient, a tie going up.                                    *)
(***************************************************************************)

k == 1024

\* const sizes = ['Bytes', 'KB', 'MB', 'GB', 'TB']
sizes == <<<<"B", "y", "t", "e", "s">>, <<"K", "B">>, <<"M", "B">>, <<"G", "B">>, <<"T", "B">>>>

\* The text a template literal gives for sizes[i] past the end of the array.
UndefinedText == <<"u", "n", "d", "e", "f", "i", "n", "e", "d">>

ZeroBytes == <<0>>

ByteCounts ==
    {ZeroBytes}
    \cup {<<d>> : d \in {1, 2, 7, 512, 1023}}
    \cup {<<d1, d2>> \o [j \in 1..n |-> d3] :
             d1 \in {1, 2, 7, 512, 1023},
             d2 \in {0, 5, 512, 1018, 1019, 1023},
             d3 \in {0, 1023},
             n \in 0..(MaxByteDigits - 3)}
    \cup {<<d1, d2>> \o [j \in 1..(MaxByteDigits - 2) |-> d3] :
             d1 \in {1, 2, 7},
             d2 \in {0, 5, 512, 1018, 1019, 1023},
             d3 \in {0, 1023}}

\* floor(m * 0.d1 d2 ... ) for the base-1024 fraction with the digits ds.
RECURSIVE FloorOfFraction(_, _)
FloorOfFraction(ds, m) ==
    IF ds = <<>> THEN 0 ELSE (m * Head(ds) + FloorOfFraction(Tail(ds), m)) \div k

\* Math.floor(Math.log(bytes) / Math.log(k)): the index of the leading digit;
\* within a few units below 1024^5 the two logarithms round to a quotient of
\* 5 on some platforms.
LogIndexes(ds) ==
    IF /\ Len(ds) = 5
       /\ \A j \in 1..4 : ds[j] = k - 1
       /\ ds[5] >= k - 8
    THEN {4, 5}
    ELSE {Len(ds) - 1}

\* (bytes / Math.pow(k, i)).toFixed(2), as a number of hundredths.
ToFixed2(ds, i) ==
    LET padded == IF i >= Len(ds) THEN [j \in 1..(i + 1 - Len(ds)) |-> 0] \o ds ELSE ds
    IN  (200 * Head(padded) + FloorOfFraction(Tail(padded), 200) + 1) \div 2

\* `${parseFloat(text)}`: the number without trailing zeros.
ParseFloatText(hundredths) ==
    LET whole == Digits(hundredths \div 100)
        frac  == hundredths % 100
    IN  IF frac = 0 THEN whole
        ELSE IF frac % 10 = 0 THEN whole \o <<".", DecimalDigit(frac \div 10)>>
        ELSE whole \o <<".", DecimalDigit(frac \div 10), DecimalDigit(frac % 10)>>

SizeText(i) == IF i + 1 \in DOMAIN sizes THEN sizes[i + 1] ELSE UndefinedText

formatFileSize(ds, i) ==
    IF ds = ZeroBytes THEN <<"0", " ">> \o sizes[1]
    ELSE ParseFloatText(ToFixed2(ds, i)) \o <<" ">> \o SizeText(i)

FormatFileSizeCall ==
    /\ fsPc = "call"
    /\ \E i \in LogIndexes(bytes) : fsResult' = formatFileSize(bytes, i)
    /\ fsPc' = "done"
    /\ UNCHANGED bytes

InitFormatFileSize ==
    /\ bytes \in ByteCounts
    /\ fsResult = <<>>
    /\ fsPc = "call"

IdleFormatFileSize ==
    /\ bytes = ZeroBytes
    /\ fsResult = <<>>
    /\ fsPc = "done"

(***************************************************************************)
(* capitalize / titleCase                                                  *)
(*                                                                         *)
(* The characters are a sample of what a JavaScript string holds: letters  *)
(* of either case, a digit, the space, and the sharp s (written by name),  *)
(* a lowercase letter whose uppercase form is the two characters 'SS'.     *)
(***************************************************************************)

SharpS == "sharp-s"
TitleChars == {"a", "A", "s", "S", "1", " ", SharpS}
TitleStrings == UNION {[1..n -> TitleChars] : n \in 0..MaxTitleLen}

\* String.prototype.toUpperCase for one character: a sequence, since the
\* uppercase form can be longer than the character.
ToUpperCase(c) ==
    IF c = SharpS THEN <<"S", "S">>
    ELSE IF \E i \in 1..26 : LowerCase[i] = c
    THEN <<UpperCase[CHOOSE i \in 1..26 : LowerCase[i] = c]>>
    ELSE <<c>>

\* str.toLowerCase()
StringToLowerCase(s) == [i \in 1..Len(s) |-> ToLowerCase(s[i])]

\* str.split(' '): the words between the spaces, empty ones included.
RECURSIVE Split(_)
Split(s) ==
    IF \A i \in 1..Len(s) : s[i] # " " THEN <<s>>
    ELSE LET sp == CHOOSE i \in 1..Len(s) : s[i] = " " /\ \A j \in 1..(i - 1) : s[j] # " "
         IN  <<SubSeq(s, 1, sp - 1)>> \o Split(SubSeq(s, sp + 1, Len(s)))

\* words.join(' ')
RECURSIVE Join(_)
Join(ws) ==
    IF Len(ws) = 1 THEN ws[1] ELSE ws[1] \o <<" ">> \o Join(Tail(ws))

\* if (!str) return str; return str.charAt(0).toUpperCase() + str.slice(1)
capitalize(s) ==
    IF s = <<>> THEN s ELSE ToUpperCase(Head(s)) \o Tail(s)

titleCase(s) ==
    LET words == Split(StringToLowerCase(s))
    IN  Join([j \in 1..Len(words) |-> capitalize(words[j])])

TitleCaseCall ==
    /\ tcPc = "call"
    /\ tcResult' = titleCase(tcStr)
    /\ tcPc' = "once"
    /\ UNCHANGED <<tcStr, tcTwice>>

TitleCaseAgain ==
    /\ tcPc = "once"
    /\ tcTwice' = titleCase(tcResult)
    /\ tcPc' = "twice"
    /\ UNCHANGED <<tcStr, tcResult>>

InitTitleCase ==
    /\ tcStr \in TitleStrings
    /\ tcResult = <<>>
    /\ tcTwice = <<>>
    /\ tcPc = "call"

IdleTitleCase ==
    /\ tcStr = <<>>
    /\ tcResult = <<>>
    /\ tcTwice = <<>>
    /\ tcPc = "twice"

(***************************************************************************)
(* EmptyState                                                              *)
(*                                                                         *)
(* A prop is a string, Undefined when it is not given, or for the icon any *)
(* React node: an element, null, false, the number 0 or the empty string.  *)
(* a && b is a when a is falsy, else b; React renders nothing for false,   *)
(* null, undefined and '', and the text '0' for the number 0.              *)
(***************************************************************************)

False == "false"
Zero == "0"
EmptyString == ""
IconElement == "<svg />"

Titles == {EmptyString, "No items"}
Descriptions == {Undefined, EmptyString, "Nothing here yet"}
ActionLabels == {Undefined, EmptyString, "Create"}
ActionHrefs == {Undefined, EmptyString, "/new"}
Icons == {Undefined, Null, False, Zero, EmptyString, IconElement}

Falsy == {Undefined, Null, False, Zero, EmptyString}

DomNode(tag, text, href) == [tag |-> tag, text |-> text, href |-> href]

\* {icon && <div ...>{icon}</div>}
RenderedIcon(icon) ==
    IF icon \notin Falsy THEN <<DomNode("div", icon, EmptyString)>>
    ELSE IF icon = Zero THEN <<DomNode("#text", "0", EmptyString)>>
    ELSE <<>>

\* {description && (<p ...>{description}</p>)}
RenderedDescription(description) ==
    IF description \notin Falsy THEN <<DomNode("p", description, EmptyString)>> ELSE <<>>

ShowActionForLabel(actionLabel, actionHref) == actionLabel \notin Falsy

\* actionLabel && actionHref
ShowAction(actionLabel, actionHref) == actionLabel \notin Falsy /\ actionHref \notin Falsy

\* <Button asChild><Link href={actionHref}>{actionLabel}</Link></Button>
RenderedAction(actionLabel, actionHref) ==
    IF ShowAction(actionLabel, actionHref)
    THEN <<DomNode("a", actionLabel, actionHref)>>
    ELSE <<>>

EmptyState(props) ==
    RenderedIcon(props.icon)
    \o <<DomNode("h3", props.title, EmptyString)>>
    \o RenderedDescription(props.description)
    \o RenderedAction(props.actionLabel, props.actionHref)

EmptyStateRender ==
    /\ esPc = "call"
    /\ esDom' = EmptyState(esProps)
    /\ esPc' = "done"
    /\ UNCHANGED esProps

InitEmptyState ==
    /\ esProps \in [title : Titles, description : Descriptions, actionLabel : ActionLabels,
                    actionHref : ActionHrefs, icon : Icons]
    /\ esDom = <<>>
    /\ esPc = "call"

IdleEmptyState ==
    /\ esProps = [title |-> EmptyString, description |-> Undefined, actionLabel |-> Undefined,
                  actionHref |-> Undefined, icon |-> Undefined]
    /\ esDom = <<>>
    /\ esPc = "done"

(***************************************************************************)
(* hasPermission (docs/06-AUTHENTICATION.md)                               *)
(*                                                                         *)
(* roleHierarchy is an object literal: reading a property it does not own  *)
(* goes on to Object.prototype.  >= turns an object operand into its       *)
(* string, compares two strings by their characters, and otherwise         *)
(* compares numbers, where undefined and a non-numeric string are NaN.     *)
(***************************************************************************)

NumberValue(n) == [type |-> "number", num |-> n, str |-> <<>>]
StringValue(s) == [type |-> "string", num |-> 0, str |-> s]
UndefinedValue == [type |-> "undefined", num |-> 0, str |-> <<>>]

\* The printable ASCII characters in code order, from the space (32) on;
\* the double quote, the backslash and the backtick are written by name.
Ascii ==
    <<" ", "!", "quote", "#", "$", "%", "&", "'", "(", ")", "*", "+", ",",
      "-", ".", "/", "0", "1", "2", "3", "4", "5", "6", "7", "8", "9", ":",
      ";", "<", "=", ">", "?", "@", "A", "B", "C", "D", "E", "F", "G", "H",
      "I", "J", "K", "L", "M", "N", "O", "P", "Q", "R", "S", "T", "U", "V",
      "W", "X", "Y", "Z", "[", "backslash", "]", "^", "_", "backtick", "a", "b",
      "c", "d", "e", "f", "g", "h", "i", "j", "k", "l", "m", "n", "o", "p",
      "q", "r", "s", "t", "u", "v", "w", "x", "y", "z", "{", "|", "}", "~">>
CharCode(c) == 31 + (CHOOSE i \in 1..Len(Ascii) : Ascii[i] = c)

\* export const roleHierarchy = { admin: 3, moderator: 2, user: 1 }
OwnRoleHierarchy(key) ==
    CASE key = "admin" -> NumberValue(3)
      [] key = "moderator" -> NumberValue(2)
      [] key = "user" -> NumberValue(1)
      [] OTHER -> UndefinedValue

\* What Object.prototype holds under a key, as the string >= turns it into:
\* a built-in function prints as its source text, the prototype itself as
\* '[object Object]'.
ObjectPrototype(key) ==
    CASE key = "constructor" ->
           StringValue(<<"f", "u", "n", "c", "t", "i", "o", "n", " ", "O", "b", "j", "e", "c",
      "t", "(", ")", " ", "{", " ", "[", "n", "a", "t", "i", "v", "e",
      " ", "c", "o", "d", "e", "]", " ", "}">>)
      [] key = "toString" ->
           StringValue(<<"f", "u", "n", "c", "t", "i", "o", "n", " ", "t", "o", "S", "t", "r",
      "i", "n", "g", "(", ")", " ", "{", " ", "[", "n", "a", "t", "i",
      "v", "e", " ", "c", "o", "d", "e", "]", " ", "}">>)
      [] key = "__proto__" ->
           StringValue(<<"[", "o", "b", "j", "e", "c", "t", " ", "O", "b", "j", "e", "c", "t",
      "]">>)
      [] OTHER -> UndefinedValue

\* roleHierarchy[key]
RoleHierarchyLookup(key) ==
    IF OwnRoleHierarchy(key) # UndefinedValue THEN OwnRoleHierarchy(key)
    ELSE ObjectPrototype(key)

\* a >= b for two strings: not (a < b) by code units.
RECURSIVE StringLess(_, _)
StringLess(a, b) ==
    IF b = <<>> THEN FALSE
    ELSE IF a = <<>> THEN TRUE
    ELSE IF Head(a) # Head(b) THEN CharCode(Head(a)) < CharCode(Head(b))
    ELSE StringLess(Tail(a), Tail(b))

GreaterOrEqual(a, b) ==
    IF a.type = "string" /\ b.type = "string" THEN ~StringLess(a.str, b.str)
    ELSE IF a.type = "number" /\ b.type = "number" THEN a.num >= b.num
    ELSE FALSE

hasPermission(user, required) ==
    GreaterOrEqual(RoleHierarchyLookup(user), RoleHierarchyLookup(required))

RoleArguments ==
    Roles \cup {"guest", "Admin", "", "undefined", "constructor", "toString", "__proto__"}

HasPermissionCall ==
    /\ permPc = "call"
    /\ permResult' = hasPermission(permUser, permRequired)
    /\ permPc' = "done"
    /\ UNCHANGED <<permUser, permRequired>>

InitHasPermission ==
    /\ permUser \in RoleArguments
    /\ permRequired \in RoleArguments
    /\ permResult = FALSE
    /\ permPc = "call"

IdleHasPermission ==
    /\ permUser = "user"
    /\ permRequired = "user"
    /\ permResult = FALSE
    /\ permPc = "done"

(***************************************************************************)
(* POST /api/auth/register                                                 *)
(*                                                                         *)
(* Every await of the handler is a point where another request may run:    *)
(* one action per awaited step. getUserByEmail and createUser are imported *)
(* from the user store; whether the store refuses a duplicate email is not *)
(* fixed by the route, so both stores are modelled (regUniqueEmail).       *)
(***************************************************************************)

Requests == 1..MaxRequests

Emails == {"ann@example.com", "bob@example.com"}

RequestBodies == [email : Emails, valid : BOOLEAN]

NoRegResponse == [status |-> 0, error |-> ""]

JsonResponse(status, error) == [status |-> status, error |-> error]

\* getUserByEmail(email): whether a row with the email exists.
getUserByEmail(users, email) == \E i \in 1..Len(users) : users[i].email = email

\* createUser fails when the store keeps emails unique and the email is taken.
createUserThrows(users, email) == regUniqueEmail /\ getUserByEmail(users, email)

createUser(users, email) == Append(users, [id |-> Len(users) + 1, email |-> email])

\* registerSchema.safeParse(body)
RegisterValidate(r) ==
    /\ regPc[r] = "parse"
    /\ IF regBody[r].valid
       THEN /\ regPc' = [regPc EXCEPT ![r] = "check"]
            /\ UNCHANGED regResponse
       ELSE /\ regPc' = [regPc EXCEPT ![r] = "done"]
            /\ regResponse' = [regResponse EXCEPT ![r] = JsonResponse(400, "Invalid fields")]
    /\ UNCHANGED <<regBody, regUsers, regUniqueEmail>>

\* await getUserByEmail(email)
RegisterCheckExisting(r) ==
    /\ regPc[r] = "check"
    /\ IF getUserByEmail(regUsers, regBody[r].email)
       THEN /\ regPc' = [regPc EXCEPT ![r] = "done"]
            /\ regResponse' = [regResponse EXCEPT ![r] = JsonResponse(400, "User already exists")]
       ELSE /\ regPc' = [regPc EXCEPT ![r] = "hash"]
            /\ UNCHANGED regResponse
    /\ UNCHANGED <<regBody, regUsers, regUniqueEmail>>

\* await bcrypt.hash(password, 10)
RegisterHashPassword(r) ==
    /\ regPc[r] = "hash"
    /\ regPc' = [regPc EXCEPT ![r] = "create"]
    /\ UNCHANGED <<regBody, regResponse, regUsers, regUniqueEmail>>

\* await createUser(...); a rejection reaches the catch block.
RegisterCreateUser(r) ==
    /\ regPc[r] = "create"
    /\ IF createUserThrows(regUsers, regBody[r].email)
       THEN /\ regResponse' = [regResponse EXCEPT ![r] = JsonResponse(500, "Internal server error")]
            /\ UNCHANGED regUsers
       ELSE /\ regUsers' = createUser(regUsers, regBody[r].email)
            /\ regResponse' = [regResponse EXCEPT ![r] = JsonResponse(201, "")]
    /\ regPc' = [regPc EXCEPT ![r] = "done"]
    /\ UNCHANGED <<regBody, regUniqueEmail>>

InitRegister ==
    /\ regBody \in [Requests -> RequestBodies]
    /\ regPc = [r \in Requests |-> "parse"]
    /\ regResponse = [r \in Requests |-> NoRegResponse]
    /\ regUsers = <<>>
    /\ regUniqueEmail \in BOOLEAN

IdleRegister ==
    /\ regBody = [r \in Requests |-> [email |-> "ann@example.com", valid |-> FALSE]]
    /\ regPc = [r \in Requests |-> "done"]
    /\ regResponse = [r \in Requests |-> NoRegResponse]
    /\ regUsers = <<>>
    /\ regUniqueEmail = FALSE

(***************************************************************************)
(* Specifications                                                          *)
(***************************************************************************)

\* What each part leaves alone.
DebounceFrame == UNCHANGED <<mqVars, trVars, fdVars, fcVars, hpVars, hdVars, rlVars, mwVars, prVars, bpVars, fsVars, tcVars, esVars, permVars, regVars>>
MediaQueryFrame == UNCHANGED <<dbVars, trVars, fdVars, fcVars, hpVars, hdVars, rlVars, mwVars, prVars, bpVars, fsVars, tcVars, esVars, permVars, regVars>>
TruncateFrame == UNCHANGED <<dbVars, mqVars, fdVars, fcVars, hpVars, hdVars, rlVars, mwVars, prVars, bpVars, fsVars, tcVars, esVars, permVars, regVars>>
FormatDateFrame == UNCHANGED <<dbVars, mqVars, trVars, fcVars, hpVars, hdVars, rlVars, mwVars, prVars, bpVars, fsVars, tcVars, esVars, permVars, regVars>>
FormatCurrencyFrame == UNCHANGED <<dbVars, mqVars, trVars, fdVars, hpVars, hdVars, rlVars, mwVars, prVars, bpVars, fsVars, tcVars, esVars, permVars, regVars>>
HomePageFrame == UNCHANGED <<dbVars, mqVars, trVars, fdVars, fcVars, hdVars, rlVars, mwVars, prVars, bpVars, fsVars, tcVars, esVars, permVars, regVars>>
HeadersFrame == UNCHANGED <<dbVars, mqVars, trVars, fdVars, fcVars, hpVars, rlVars, mwVars, prVars, bpVars, fsVars, tcVars, esVars, permVars, regVars>>
RateLimitFrame == UNCHANGED <<dbVars, mqVars, trVars, fdVars, fcVars, hpVars, hdVars, mwVars, prVars, bpVars, fsVars, tcVars, esVars, permVars, regVars>>
MiddlewareFrame == UNCHANGED <<dbVars, mqVars, trVars, fdVars, fcVars, hpVars, hdVars, rlVars, prVars, bpVars, fsVars, tcVars, esVars, permVars, regVars>>
ProtectedRouteFrame == UNCHANGED <<dbVars, mqVars, trVars, fdVars, fcVars, hpVars, hdVars, rlVars, mwVars, bpVars, fsVars, tcVars, esVars, permVars, regVars>>
BreakpointsFrame == UNCHANGED <<dbVars, mqVars, trVars, fdVars, fcVars, hpVars, hdVars, rlVars, mwVars, prVars, fsVars, tcVars, esVars, permVars, regVars>>
FormatFileSizeFrame == UNCHANGED <<dbVars, mqVars, trVars, fdVars, fcVars, hpVars, hdVars, rlVars, mwVars, prVars, bpVars, tcVars, esVars, permVars, regVars>>
TitleCaseFrame == UNCHANGED <<dbVars, mqVars, trVars, fdVars, fcVars, hpVars, hdVars, rlVars, mwVars, prVars, bpVars, fsVars, esVars, permVars, regVars>>
EmptyStateFrame == UNCHANGED <<dbVars, mqVars, trVars, fdVars, fcVars, hpVars, hdVars, rlVars, mwVars, prVars, bpVars, fsVars, tcVars, permVars, regVars>>
HasPermissionFrame == UNCHANGED <<dbVars, mqVars, trVars, fdVars, fcVars, hpVars, hdVars, rlVars, mwVars, prVars, bpVars, fsVars, tcVars, esVars, regVars>>
RegisterFrame == UNCHANGED <<dbVars, mqVars, trVars, fdVars, fcVars, hpVars, hdVars, rlVars, mwVars, prVars, bpVars, fsVars, tcVars, esVars, permVars>>

StartDebounce == InitDebounce /\ IdleMediaQuery /\ IdleTruncate /\ IdleFormatDate /\ IdleFormatCurrency /\ IdleHomePage /\ IdleHeaders /\ IdleRateLimit /\ IdleMiddleware /\ IdleProtectedRoute /\ IdleBreakpoints /\ IdleFormatFileSize /\ IdleTitleCase /\ IdleEmptyState /\ IdleHasPermission /\ IdleRegister

NextDebounce ==
    \/ DebounceParentRender /\ DebounceFrame
    \/ DebounceStateRender /\ DebounceFrame
    \/ DebounceFlushEffects /\ DebounceFrame
    \/ DebounceTimerFires /\ DebounceFrame
    \/ DebounceTick /\ DebounceFrame
    \/ DebounceUnmount /\ DebounceFrame

SpecDebounce == StartDebounce /\ [][NextDebounce]_vars

\* The scheduling of the host: effects are flushed, the clock advances, due
\* timeouts run and a queued state update is rendered.
FairSpecDebounce ==
    /\ SpecDebounce
    /\ WF_vars(DebounceFlushEffects /\ DebounceFrame)
    /\ WF_vars(DebounceTick /\ DebounceFrame)
    /\ WF_vars(DebounceTimerFires /\ DebounceFrame)
    /\ WF_vars(DebounceStateRender /\ DebounceFrame)

StartMediaQuery == IdleDebounce /\ InitMediaQuery /\ IdleTruncate /\ IdleFormatDate /\ IdleFormatCurrency /\ IdleHomePage /\ IdleHeaders /\ IdleRateLimit /\ IdleMiddleware /\ IdleProtectedRoute /\ IdleBreakpoints /\ IdleFormatFileSize /\ IdleTitleCase /\ IdleEmptyState /\ IdleHasPermission /\ IdleRegister

NextMediaQuery ==
    \/ MediaQueryParentRender /\ MediaQueryFrame
    \/ MediaQueryStateRender /\ MediaQueryFrame
    \/ MediaQueryFlushEffects /\ MediaQueryFrame
    \/ MediaQueryChangeEvent /\ MediaQueryFrame
    \/ MediaQueryUnmount /\ MediaQueryFrame

SpecMediaQuery == StartMediaQuery /\ [][NextMediaQuery]_vars

StartTruncate == IdleDebounce /\ IdleMediaQuery /\ InitTruncate /\ IdleFormatDate /\ IdleFormatCurrency /\ IdleHomePage /\ IdleHeaders /\ IdleRateLimit /\ IdleMiddleware /\ IdleProtectedRoute /\ IdleBreakpoints /\ IdleFormatFileSize /\ IdleTitleCase /\ IdleEmptyState /\ IdleHasPermission /\ IdleRegister

NextTruncate == TruncateCall /\ TruncateFrame

SpecTruncate == StartTruncate /\ [][NextTruncate]_vars

StartFormatDate == IdleDebounce /\ IdleMediaQuery /\ IdleTruncate /\ InitFormatDate /\ IdleFormatCurrency /\ IdleHomePage /\ IdleHeaders /\ IdleRateLimit /\ IdleMiddleware /\ IdleProtectedRoute /\ IdleBreakpoints /\ IdleFormatFileSize /\ IdleTitleCase /\ IdleEmptyState /\ IdleHasPermission /\ IdleRegister

NextFormatDate == FormatDateCall /\ FormatDateFrame

SpecFormatDate == StartFormatDate /\ [][NextFormatDate]_vars

StartFormatCurrency == IdleDebounce /\ IdleMediaQuery /\ IdleTruncate /\ IdleFormatDate /\ InitFormatCurrency /\ IdleHomePage /\ IdleHeaders /\ IdleRateLimit /\ IdleMiddleware /\ IdleProtectedRoute /\ IdleBreakpoints /\ IdleFormatFileSize /\ IdleTitleCase /\ IdleEmptyState /\ IdleHasPermission /\ IdleRegister

NextFormatCurrency == FormatCurrencyCall /\ FormatCurrencyFrame

SpecFormatCurrency == StartFormatCurrency /\ [][NextFormatCurrency]_vars

StartHomePage == IdleDebounce /\ IdleMediaQuery /\ IdleTruncate /\ IdleFormatDate /\ IdleFormatCurrency /\ InitHomePage /\ IdleHeaders /\ IdleRateLimit /\ IdleMiddleware /\ IdleProtectedRoute /\ IdleBreakpoints /\ IdleFormatFileSize /\ IdleTitleCase /\ IdleEmptyState /\ IdleHasPermission /\ IdleRegister

NextHomePage == HomePageRender /\ HomePageFrame

SpecHomePage == StartHomePage /\ [][NextHomePage]_vars

StartHeaders == IdleDebounce /\ IdleMediaQuery /\ IdleTruncate /\ IdleFormatDate /\ IdleFormatCurrency /\ IdleHomePage /\ InitHeaders /\ IdleRateLimit /\ IdleMiddleware /\ IdleProtectedRoute /\ IdleBreakpoints /\ IdleFormatFileSize /\ IdleTitleCase /\ IdleEmptyState /\ IdleHasPermission /\ IdleRegister

NextHeaders == HeadersRequest /\ HeadersFrame

SpecHeaders == StartHeaders /\ [][NextHeaders]_vars

StartRateLimit == IdleDebounce /\ IdleMediaQuery /\ IdleTruncate /\ IdleFormatDate /\ IdleFormatCurrency /\ IdleHomePage /\ IdleHeaders /\ InitRateLimit /\ IdleMiddleware /\ IdleProtectedRoute /\ IdleBreakpoints /\ IdleFormatFileSize /\ IdleTitleCase /\ IdleEmptyState /\ IdleHasPermission /\ IdleRegister

NextRateLimit ==
    \/ RateLimitPost /\ RateLimitFrame
    \/ RateLimitTick /\ RateLimitFrame

SpecRateLimit == StartRateLimit /\ [][NextRateLimit]_vars

StartMiddleware == IdleDebounce /\ IdleMediaQuery /\ IdleTruncate /\ IdleFormatDate /\ IdleFormatCurrency /\ IdleHomePage /\ IdleHeaders /\ IdleRateLimit /\ InitMiddleware /\ IdleProtectedRoute /\ IdleBreakpoints /\ IdleFormatFileSize /\ IdleTitleCase /\ IdleEmptyState /\ IdleHasPermission /\ IdleRegister

NextMiddleware ==
    \/ MiddlewareRequest /\ MiddlewareFrame
    \/ MiddlewareFollowRedirect /\ MiddlewareFrame

SpecMiddleware == StartMiddleware /\ [][NextMiddleware]_vars

StartProtectedRoute == IdleDebounce /\ IdleMediaQuery /\ IdleTruncate /\ IdleFormatDate /\ IdleFormatCurrency /\ IdleHomePage /\ IdleHeaders /\ IdleRateLimit /\ IdleMiddleware /\ InitProtectedRoute /\ IdleBreakpoints /\ IdleFormatFileSize /\ IdleTitleCase /\ IdleEmptyState /\ IdleHasPermission /\ IdleRegister

NextProtectedRoute ==
    \/ ProtectedRouteSessionChange /\ ProtectedRouteFrame
    \/ ProtectedRouteFlushEffects /\ ProtectedRouteFrame
    \/ ProtectedRouteNavigate /\ ProtectedRouteFrame

SpecProtectedRoute == StartProtectedRoute /\ [][NextProtectedRoute]_vars

StartBreakpoints == IdleDebounce /\ IdleMediaQuery /\ IdleTruncate /\ IdleFormatDate /\ IdleFormatCurrency /\ IdleHomePage /\ IdleHeaders /\ IdleRateLimit /\ IdleMiddleware /\ IdleProtectedRoute /\ InitBreakpoints /\ IdleFormatFileSize /\ IdleTitleCase /\ IdleEmptyState /\ IdleHasPermission /\ IdleRegister

NextBreakpoints == BreakpointsSettle /\ BreakpointsFrame

SpecBreakpoints == StartBreakpoints /\ [][NextBreakpoints]_vars

StartFormatFileSize == IdleDebounce /\ IdleMediaQuery /\ IdleTruncate /\ IdleFormatDate /\ IdleFormatCurrency /\ IdleHomePage /\ IdleHeaders /\ IdleRateLimit /\ IdleMiddleware /\ IdleProtectedRoute /\ IdleBreakpoints /\ InitFormatFileSize /\ IdleTitleCase /\ IdleEmptyState /\ IdleHasPermission /\ IdleRegister

NextFormatFileSize == FormatFileSizeCall /\ FormatFileSizeFrame

SpecFormatFileSize == StartFormatFileSize /\ [][NextFormatFileSize]_vars

StartTitleCase == IdleDebounce /\ IdleMediaQuery /\ IdleTruncate /\ IdleFormatDate /\ IdleFormatCurrency /\ IdleHomePage /\ IdleHeaders /\ IdleRateLimit /\ IdleMiddleware /\ IdleProtectedRoute /\ IdleBreakpoints /\ IdleFormatFileSize /\ InitTitleCase /\ IdleEmptyState /\ IdleHasPermission /\ IdleRegister

NextTitleCase ==
    \/ TitleCaseCall /\ TitleCaseFrame
    \/ TitleCaseAgain /\ TitleCaseFrame

SpecTitleCase == StartTitleCase /\ [][NextTitleCase]_vars

StartEmptyState == IdleDebounce /\ IdleMediaQuery /\ IdleTruncate /\ IdleFormatDate /\ IdleFormatCurrency /\ IdleHomePage /\ IdleHeaders /\ IdleRateLimit /\ IdleMiddleware /\ IdleProtectedRoute /\ IdleBreakpoints /\ IdleFormatFileSize /\ IdleTitleCase /\ InitEmptyState /\ IdleHasPermission /\ IdleRegister

NextEmptyState == EmptyStateRender /\ EmptyStateFrame

SpecEmptyState == StartEmptyState /\ [][NextEmptyState]_vars

StartHasPermission == IdleDebounce /\ IdleMediaQuery /\ IdleTruncate /\ IdleFormatDate /\ IdleFormatCurrency /\ IdleHomePage /\ IdleHeaders /\ IdleRateLimit /\ IdleMiddleware /\ IdleProtectedRoute /\ IdleBreakpoints /\ IdleFormatFileSize /\ IdleTitleCase /\ IdleEmptyState /\ InitHasPermission /\ IdleRegister

NextHasPermission == HasPermissionCall /\ HasPermissionFrame

SpecHasPermission == StartHasPermission /\ [][NextHasPermission]_vars

StartRegister == IdleDebounce /\ IdleMediaQuery /\ IdleTruncate /\ IdleFormatDate /\ IdleFormatCurrency /\ IdleHomePage /\ IdleHeaders /\ IdleRateLimit /\ IdleMiddleware /\ IdleProtectedRoute /\ IdleBreakpoints /\ IdleFormatFileSize /\ IdleTitleCase /\ IdleEmptyState /\ IdleHasPermission /\ InitRegister

NextRegister ==
    \/ (\E r \in Requests : RegisterValidate(r)) /\ RegisterFrame
    \/ (\E r \in Requests : RegisterCheckExisting(r)) /\ RegisterFrame
    \/ (\E r \in Requests : RegisterHashPassword(r)) /\ RegisterFrame
    \/ (\E r \in Requests : RegisterCreateUser(r)) /\ RegisterFrame

SpecRegister == StartRegister /\ [][NextRegister]_vars

(***************************************************************************)
(* Properties of useDebounce                                               *)
(***************************************************************************)

\* A step in which the browser ran the callback of timeout i.
TimeoutRan(i) ==
    /\ timers[i] # NoTimeout
    /\ timers' = [timers EXCEPT ![i] = NoTimeout]
    /\ dbEffect' = dbEffect
    /\ dbMounted' = dbMounted

\* The input (value, delay) has been the same for the full delay.
QuietForDelay == dbSince >= delay

DebounceSettled ==
    /\ dbReturned = value
    /\ dbUpdate \in {None, value}
    /\ \A i \in Pending(timers) : timers[i].val = value

\* C2: when the value stops changing while the component stays mounted, and
\* the pending timeout gets to fire (no timeout stays pending forever), the
\* returned value eventually equals the latest value for good; once it has
\* caught up it stays equal to the value until the value changes.
C2_EventuallyLatest ==
    /\ \A v \in Values :
          (<>[](dbMounted /\ value = v) /\ []<>(Pending(timers) = {}))
             => <>[](dbReturned = v)
    /\ [][DebounceSettled /\ value' = value => DebounceSettled']_vars

\* C2 witness: a value other than the initial one has been published and
\* nothing is pending any more.
C2_Witness ==
    /\ dbMounted
    /\ value # dbInitial
    /\ dbReturned = value
    /\ dbUpdate = None
    /\ ~dbEffect
    /\ Pending(timers) = {}

\* C3: at most one timeout is pending in every state; once the component has
\* unmounted and its cleanup has run no timeout is pending; the state of an
\* unmounted component is never written.
C3_SingleTimer ==
    /\ [](/\ Cardinality(Pending(timers)) <= 1
          /\ (~dbMounted /\ ~dbEffect => Pending(timers) = {}))
    /\ [][~dbMounted =>
            /\ debouncedValue' = debouncedValue
            /\ dbReturned' = dbReturned
            /\ dbUpdate' = dbUpdate]_vars

\* C3 witness: the component unmounted while the timeout of a changed input
\* was pending; the cleanup cancelled it and the value was never published.
C3_Witness ==
    /\ ~dbMounted
    /\ ~dbEffect
    /\ value # dbInitial
    /\ debouncedValue = dbInitial
    /\ dbSince >= delay
    /\ delay > 0
    /\ Pending(timers) = {}


(***************************************************************************)
(* Properties of useMediaQuery                                             *)
(***************************************************************************)

ListenerCount == listeners["(max-width: 768px)"] + listeners["(min-width: 1025px)"]

\* C4: the hook never has more than one 'change' listener registered; while
\* mounted with its effects flushed it has exactly one, on the list of the
\* current query; once unmounted with the cleanup run it has none.
C4_UnsubscribesOnTeardown ==
    /\ ListenerCount <= 1
    /\ (mqMounted /\ ~mqEffect => ListenerCount = 1 /\ listeners[query] = 1)
    /\ (~mqMounted /\ ~mqEffect => ListenerCount = 0)

\* C4 witness: the effect re-ran (a change event was delivered and rendered)
\* and the component then unmounted and cleaned up.
C4_Witness ==
    /\ ~mqMounted
    /\ ~mqEffect
    /\ mqChanges = MaxChanges
    /\ matches = TRUE

\* C5: once the queued state updates are rendered and the effects flushed,
\* the returned boolean is the browser's current result of the current query.
C5_ReturnsCurrentMatch ==
    mqMounted /\ mqUpdate = {} /\ ~mqEffect => mqReturned = mediaMatches[query]

\* C5 witness: change events were delivered, everything is processed, and
\* the hook returns true for a query that currently matches.
C5_Witness ==
    /\ mqMounted
    /\ mqUpdate = {}
    /\ ~mqEffect
    /\ mqChanges = MaxChanges
    /\ mqReturned = TRUE
    /\ mediaMatches[query] = TRUE


(***************************************************************************)
(* Properties of truncate                                                  *)
(***************************************************************************)

\* C6: the result is never longer than length, the suffix included.
C6_NeverLongerThanLength ==
    trPc = "done" => Len(trResult) <= length

\* The string without its trailing spaces.
RECURSIVE TrimEnd(_)
TrimEnd(s) ==
    IF s # <<>> /\ s[Len(s)] = " " THEN TrimEnd(SubSeq(s, 1, Len(s) - 1)) ELSE s

\* C7: a string longer than length, truncated with the default suffix, is its
\* first length characters without trailing whitespace, followed by '...'.
C7_KeepsFirstLengthChars ==
    trPc = "done" /\ Len(str) > length /\ suffix = DefaultSuffix =>
        trResult = TrimEnd(SubSeq(str, 1, length)) \o DefaultSuffix

\* C8: a string of at most length characters is returned as it is, whatever
\* the suffix.
C8_ShortUnchanged ==
    trPc = "done" /\ Len(str) <= length => trResult = str

\* C8 witness: a non-empty string of exactly length characters came back
\* unchanged, without the default suffix.
C8_Witness ==
    /\ trPc = "done"
    /\ Len(str) = length
    /\ str # <<>>
    /\ suffix = DefaultSuffix
    /\ trResult = str


(***************************************************************************)
(* Properties of formatDate                                                *)
(***************************************************************************)

\* The Date that formatDate hands to date-fns.
DateObject ==
    IF date.kind = "string" THEN DateFromString(date.text) ELSE date.time

\* C9: without a format string a valid date is rendered as full month name,
\* day of month, comma, four-digit year ('January 15, 2024').
C9_DefaultIsLongDate ==
    fdPc = "done" /\ formatString = Omitted /\ DateObject.valid =>
        LET f == LocalFields(DateObject)
        IN  fdResult = Returned(MonthNames[f.month] \o " " \o ToString(f.day)
                                  \o ", " \o FourDigits(f.year))

\* C10: for an invalid date (an invalid Date object, or a string or number
\* that converts to one) formatDate throws instead of returning a string.
C10_InvalidDateThrows ==
    fdPc = "done" /\ ~DateObject.valid => fdResult.throws

\* C10 witness: the call with the string 'invalid' has thrown.
C10_Witness ==
    /\ fdPc = "done"
    /\ date.kind = "string"
    /\ date.text = <<"i", "n", "v", "a", "l", "i", "d">>
    /\ fdResult = RangeError

(***************************************************************************)
(* Properties of formatCurrency                                            *)
(***************************************************************************)

DigitChars == {"0", "1", "2", "3", "4", "5", "6", "7", "8", "9"}

\* d,ddd,ddd.dd : digits in groups of three from the right, set off by commas,
\* no comma in front, no leading zero but a lone one, exactly two decimals.
IsUsNumber(s) ==
    /\ Len(s) >= 4
    /\ s[Len(s) - 2] = "."
    /\ s[Len(s) - 1] \in DigitChars
    /\ s[Len(s)] \in DigitChars
    /\ \A i \in 1..(Len(s) - 3) :
          IF (Len(s) - 2 - i) % 4 = 0 THEN s[i] = "," ELSE s[i] \in DigitChars
    /\ s[1] \in DigitChars
    /\ (s[1] = "0" => Len(s) = 4)

\* C11: with the currency and the locale omitted, formatCurrency returns an
\* optional minus sign (there exactly when the amount is negative), then '$',
\* then the amount with comma thousands separators and exactly two decimals;
\* 1234.56 gives '$1,234.56', 0 gives '$0.00' and -100 gives '-$100.00'.
C11_DefaultIsUsDollars ==
    (fcPc = "done" /\ currency = Undefined /\ locale = Undefined) =>
        /\ fcResult # <<>>
        /\ (Head(fcResult) = "-") = amount.neg
        /\ LET body == IF amount.neg THEN Tail(fcResult) ELSE fcResult
           IN  /\ body # <<>>
               /\ Head(body) = "$"
               /\ IsUsNumber(Tail(body))
        /\ (amount = Number(FALSE, 1234560) =>
               fcResult = <<"$", "1", ",", "2", "3", "4", ".", "5", "6">>)
        /\ (amount = Number(FALSE, 0) => fcResult = <<"$", "0", ".", "0", "0">>)
        /\ (amount = Number(TRUE, 100000) =>
               fcResult = <<"-", "$", "1", "0", "0", ".", "0", "0">>)

\* A negative amount of a million or more has been formatted with the defaults.
C11_Witness ==
    /\ fcPc = "done"
    /\ currency = Undefined
    /\ locale = Undefined
    /\ amount.neg
    /\ amount.milli >= 1000000000
    /\ Len(fcResult) > 10

(***************************************************************************)
(* Properties of HomePage                                                  *)
(***************************************************************************)

\* C12: whatever props it is rendered with, HomePage renders exactly one
\* heading whose name matches 'Next.js Standardization Template' and exactly
\* one element each whose text matches 'Components', 'Authentication' and
\* 'Best Practices'; these three are the titles of three different cards.
C12_OneHeadingAndThreeCards ==
    hpRenders > 0 =>
        /\ Cardinality(AllByRoleHeading(hpDom, TitlePattern)) = 1
        /\ Cardinality(AllByText(hpDom, ComponentsPattern)) = 1
        /\ Cardinality(AllByText(hpDom, AuthenticationPattern)) = 1
        /\ Cardinality(AllByText(hpDom, BestPracticesPattern)) = 1
        /\ \A i \in AllByText(hpDom, ComponentsPattern)
                    \cup AllByText(hpDom, AuthenticationPattern)
                    \cup AllByText(hpDom, BestPracticesPattern) : hpDom[i].tag = "h2"
        /\ Cardinality(AllByText(hpDom, ComponentsPattern)
                       \cup AllByText(hpDom, AuthenticationPattern)
                       \cup AllByText(hpDom, BestPracticesPattern)) = 3

\* HomePage has been rendered again, with props, and the title query finds a heading.
C12_Witness ==
    /\ hpRenders = MaxRenders
    /\ hpProps # {}
    /\ AllByRoleHeading(hpDom, TitlePattern) # {}

(***************************************************************************)
(* Properties of headers()                                                 *)
(***************************************************************************)

\* C13: the response to a request for any path carries every header of the
\* documented configuration, Permissions-Policy included, each with the
\* documented value.
C13_AppliesDocumentedHeaders ==
    hdPc = "done" => securityHeaders \subseteq hdResponse

(***************************************************************************)
(* Properties of useMediaQuery without window.matchMedia                   *)
(***************************************************************************)

\* C14: when window.matchMedia does not exist, the effect of useMediaQuery
\* registers no listener and queues no update, and once it has run it has
\* thrown a TypeError out of the component, which is torn down instead of
\* going on with the default result.
C14_EffectFailsWithoutMatchMedia ==
    ~hasMatchMedia =>
        /\ \A q \in Queries : listeners[q] = 0
        /\ subscribed = NoQuery
        /\ mqUpdate = {}
        /\ (~mqEffect => mqError = "TypeError" /\ ~mqMounted)
        /\ (mqEffect => mqError = None /\ mqMounted)

\* The effect has run without window.matchMedia and has thrown.
C14_Witness ==
    /\ ~hasMatchMedia
    /\ ~mqEffect
    /\ mqError = "TypeError"

(***************************************************************************)
(* Properties of rateLimit                                                 *)
(***************************************************************************)

\* C15: of the calls of check(10, ip) for one token that fall within one
\* interval of the first of them, the first 10 resolve and the later ones
\* are rejected and answered with status 429.
C15_AdmitsTenPerInterval ==
    (rlLast # NoCall /\ rlLast.first < Interval) =>
        IF rlLast.seq <= Limit THEN rlLast.status = 200 ELSE rlLast.status = 429

(***************************************************************************)
(* Properties of the middleware                                            *)
(***************************************************************************)

HasPrefix(s, lead) == Len(s) >= Len(lead) /\ SubSeq(s, 1, Len(lead)) = lead

UnderProtectedPath(p) ==
    \/ HasPrefix(p, DashboardRoute)
    \/ HasPrefix(p, ProfileRoute)
    \/ HasPrefix(p, SettingsRoute)

\* C16: an unauthenticated request for a path starting with /dashboard,
\* /profile or /settings is answered with a redirect to /login whose
\* callbackUrl is the requested pathname; an authenticated request for /login
\* or /register is redirected to /dashboard; every other request passes.
C16_MiddlewareGuardsProtectedPaths ==
    mwPc = "done" =>
        IF mwAuth = Null /\ UnderProtectedPath(mwPathname)
        THEN /\ mwResponse.kind = "redirect"
             /\ mwResponse.pathname = LoginRoute
             /\ mwResponse.searchParams = {<<"callbackUrl", mwPathname>>}
        ELSE IF mwAuth # Null /\ (mwPathname = LoginRoute \/ mwPathname = RegisterRoute)
        THEN /\ mwResponse.kind = "redirect"
             /\ mwResponse.pathname = DashboardRoute
             /\ mwResponse.searchParams = {}
        ELSE mwResponse.kind = "next"

\* An unauthenticated request for a path below /settings has been redirected.
C16_Witness ==
    /\ mwPc = "done"
    /\ mwAuth = Null
    /\ HasPrefix(mwPathname, SettingsRoute)
    /\ Len(mwPathname) > Len(SettingsRoute)
    /\ mwResponse.kind = "redirect"

(***************************************************************************)
(* Properties of ProtectedRoute                                            *)
(***************************************************************************)

\* C17: with a requiredRole, ProtectedRoute has its children rendered only
\* when the session is authenticated and the user's role equals requiredRole.
C17_ChildrenOnlyForRequiredRole ==
    (prRequiredRole # Undefined /\ prOutput = "children") =>
        (prStatus = "authenticated" /\ prRole = prRequiredRole)

(***************************************************************************)
(* Properties of useDebounce: the first render, and a change of the delay  *)
(***************************************************************************)

\* The state the first render leaves: no effect has run yet.
FirstRender == dbMounted /\ dbMountTimer = "none"

\* C18: the first render returns the value it was given although no timeout
\* has been started, let alone run; and when the timeout started by the mount
\* effect runs, the update it queues is the value already returned, so the
\* render that applies it returns the same, initial, value.
C18_InitialValueAtOnce ==
    /\ FirstRender =>
          /\ dbReturned = value
          /\ dbReturned = dbInitial
          /\ Pending(timers) = {}
          /\ dbUpdate = None
          /\ dbSince = 0
    /\ (dbMountTimer = "fired" /\ dbMounted) =>
          /\ dbUpdate = dbReturned
          /\ dbReturned = dbInitial
    /\ dbMountTimer = "rendered" =>
          /\ dbReturned = dbInitial
          /\ debouncedValue = dbInitial

\* C18 witness: the timeout of the mount effect ran after a delay and the
\* render that applied its update has returned the initial value.
C18_Witness ==
    /\ dbMounted
    /\ dbMountTimer = "rendered"
    /\ delay > 0
    /\ dbSince >= delay
    /\ dbReturned = dbInitial

Max(a, b) == IF a >= b THEN a ELSE b

C20_FalseUntilMountEffect ==
    /\ mqMount = "none" =>
          /\ mqMounted
          /\ mqReturned = FALSE
          /\ mqError = None
          /\ mqUpdate = {}
          /\ \A q \in Queries : listeners[q] = 0
    /\ mqMount = "ran" =>
          /\ hasMatchMedia
          /\ mqReturned = FALSE
          /\ (mediaMatches[query] => mqUpdate = {TRUE})
    /\ (mqMount = "processed" /\ mqUpdate = {}) => mqReturned = mediaMatches[query]

\* C20 witness: the query matched at mount, the first render returned false,
\* and the render after the mount effect returns true with no change event
\* delivered.
C20_Witness ==
    /\ mqMount = "processed"
    /\ mqUpdate = {}
    /\ mqChanges = 0
    /\ mqReturned = TRUE
    /\ mediaMatches[query] = TRUE

(***************************************************************************)
(* Properties of useMediaQuery: a change of the query                      *)
(***************************************************************************)

C22_BreakpointsPartition ==
    bpPc = "done" =>
        /\ bpMatches.mobile = (bpWidth <= 768)
        /\ bpMatches.tablet = (769 <= bpWidth /\ bpWidth <= 1024)
        /\ bpMatches.desktop = (bpWidth >= 1025)
        /\ Cardinality({h \in {"mobile", "tablet", "desktop"} : bpMatches[h]}) = 1

\* The hooks have settled at the first tablet width.
C22_Witness ==
    /\ bpPc = "done"
    /\ bpWidth = 769
    /\ bpMatches.tablet

(***************************************************************************)
(* Properties of formatFileSize                                            *)
(***************************************************************************)

\* The position of the space in a result, and the texts on either side of it.
SpaceAt(s) == CHOOSE i \in 1..Len(s) : s[i] = " "
NumberText(s) == SubSeq(s, 1, SpaceAt(s) - 1)
UnitText(s) == SubSeq(s, SpaceAt(s) + 1, Len(s))

RECURSIVE DigitsValue(_)
DigitsValue(s) ==
    IF s = <<>> THEN 0 ELSE 10 * DigitsValue(SubSeq(s, 1, Len(s) - 1)) + Digit(s[Len(s)])

\* The printed number in hundredths: digits, then at most '.' and two decimals.
PrintedHundredths(s) ==
    IF \E i \in 1..Len(s) : s[i] = "."
    THEN LET dot  == CHOOSE i \in 1..Len(s) : s[i] = "."
             frac == SubSeq(s, dot + 1, Len(s))
         IN  100 * DigitsValue(SubSeq(s, 1, dot - 1))
             + (IF Len(frac) = 1 THEN 10 * DigitsValue(frac) ELSE DigitsValue(frac))
    ELSE 100 * DigitsValue(s)

\* C23: formatFileSize returns '0 Bytes' for 0, and for every positive whole
\* byte count a string whose unit is one of Bytes, KB, MB, GB, TB.
C23_UnitInTable ==
    fsPc = "done" =>
        /\ (bytes = ZeroBytes => fsResult = <<"0", " ", "B", "y", "t", "e", "s">>)
        /\ UnitText(fsResult) \in {sizes[j] : j \in 1..5}

\* C24: for every positive whole byte count the number printed is at least 1
\* and strictly below 1024.
C24_NumberBelow1024 ==
    (fsPc = "done" /\ bytes # ZeroBytes) =>
        /\ PrintedHundredths(NumberText(fsResult)) >= 100
        /\ PrintedHundredths(NumberText(fsResult)) < 102400

(***************************************************************************)
(* Properties of titleCase                                                 *)
(***************************************************************************)

IsLowerCaseLetter(c) == c = SharpS \/ \E i \in 1..26 : LowerCase[i] = c
IsUpperCaseLetter(c) == \E i \in 1..26 : UpperCase[i] = c

SpacePositions(s) == {i \in 1..Len(s) : s[i] = " "}

\* Every character that follows a space or starts the string is not a
\* lowercase letter, and every other character is not an uppercase letter.
IsTitleCased(s) ==
    \A i \in 1..Len(s) :
        IF i = 1 \/ s[i - 1] = " " THEN ~IsLowerCaseLetter(s[i])
        ELSE ~IsUpperCaseLetter(s[i])

\* C25: in the result of titleCase every space-separated word has its first
\* character uppercased and its other characters lowercased, the spaces are
\* where they were in the argument, and a second application changes nothing.
C25_TitleCaseIdempotent ==
    /\ tcPc # "call" =>
          /\ IsTitleCased(tcResult)
          /\ Len(tcResult) = Len(tcStr)
          /\ SpacePositions(tcResult) = SpacePositions(tcStr)
          /\ StringToLowerCase(tcResult) = StringToLowerCase(tcStr)
    /\ tcPc = "twice" => tcTwice = tcResult

(***************************************************************************)
(* Properties of EmptyState                                                *)
(***************************************************************************)

NodesWithTag(dom, tag) == {i \in 1..Len(dom) : dom[i].tag = tag}

NonEmpty(p) == p # Undefined /\ p # ""

\* C26: EmptyState renders one h3 with the title whatever the props; one p
\* with the description exactly when a non-empty description is given; the
\* icon exactly when an icon is given (not undefined, null, false or '');
\* and one link from actionLabel to actionHref exactly when both are
\* non-empty, none when only one of them is.
C26_RendersWhatIsGiven ==
    esPc = "done" =>
        /\ Cardinality(NodesWithTag(esDom, "h3")) = 1
        /\ \A i \in NodesWithTag(esDom, "h3") : esDom[i].text = esProps.title
        /\ IF NonEmpty(esProps.description)
           THEN /\ Cardinality(NodesWithTag(esDom, "p")) = 1
                /\ \A i \in NodesWithTag(esDom, "p") : esDom[i].text = esProps.description
           ELSE NodesWithTag(esDom, "p") = {}
        /\ IF esProps.icon \notin {Undefined, "null", "false", ""}
           THEN Cardinality({i \in 1..Len(esDom) :
                               /\ esDom[i].tag \in {"div", "#text"}
                               /\ esDom[i].text = esProps.icon}) = 1
           ELSE NodesWithTag(esDom, "div") \cup NodesWithTag(esDom, "#text") = {}
        /\ IF NonEmpty(esProps.actionLabel) /\ NonEmpty(esProps.actionHref)
           THEN /\ Cardinality(NodesWithTag(esDom, "a")) = 1
                /\ \A i \in NodesWithTag(esDom, "a") :
                      /\ esDom[i].text = esProps.actionLabel
                      /\ esDom[i].href = esProps.actionHref
           ELSE NodesWithTag(esDom, "a") = {}

\* EmptyState was rendered with a label but an empty href, and with an icon
\* and a description: everything but the action is there.
C26_Witness ==
    /\ esPc = "done"
    /\ esProps.actionLabel = "Create"
    /\ esProps.actionHref = ""
    /\ esProps.icon = "<svg />"
    /\ esProps.description = "Nothing here yet"
    /\ Len(esDom) = 3

(***************************************************************************)
(* Properties of hasPermission                                             *)
(***************************************************************************)

\* admin > moderator > user
RanksAtLeast(user, required) ==
    \/ user = "admin" /\ required \in {"admin", "moderator", "user"}
    \/ user = "moderator" /\ required \in {"moderator", "user"}
    \/ user = "user" /\ required = "user"

\* C27: hasPermission is true exactly when both arguments are among admin,
\* moderator and user and the user's role ranks at least as high as the
\* required one; with any other argument it is false.
C27_PermissionByRank ==
    permPc = "done" => (permResult = RanksAtLeast(permUser, permRequired))

(***************************************************************************)
(* Properties of the middleware: following its redirects                   *)
(***************************************************************************)

\* C28: with the login state fixed, a client that follows the redirects of
\* the middleware follows at most one: the request for the target of a
\* redirect (/login without a session, /dashboard with one) passes through.
C28_AtMostOneRedirect ==
    /\ mwRedirects <= 1
    /\ (mwRedirects = 1 /\ mwPc = "done") => mwResponse.kind = "next"
    /\ (mwRedirects = 1 /\ mwAuth = Null) => mwPathname = LoginRoute
    /\ (mwRedirects = 1 /\ mwAuth # Null) => mwPathname = DashboardRoute

\* A signed-in client asked for /register, followed the redirect and the
\* request for /dashboard has passed.
C28_Witness ==
    /\ mwRedirects = 1
    /\ mwPc = "done"
    /\ mwAuth # Null
    /\ mwPathname = DashboardRoute
    /\ mwResponse.kind = "next"

(***************************************************************************)
(* Properties of the registration route                                    *)
(***************************************************************************)

UsersWithEmail(address) == {i \in 1..Len(regUsers) : regUsers[i].email = address}

SameEmailPair(a, b) ==
    /\ a # b
    /\ regBody[a].valid
    /\ regBody[b].valid
    /\ regBody[a].email = regBody[b].email

\* C29: the store never holds two users with one email, and of two valid
\* requests with the same email, once both are answered, one has 201 and the
\* other 400 'User already exists'.
C29_OneUserPerEmail ==
    /\ \A address \in Emails : Cardinality(UsersWithEmail(address)) <= 1
    /\ \A a, b \in Requests :
           (SameEmailPair(a, b) /\ regPc[a] = "done" /\ regPc[b] = "done") =>
               {regResponse[a], regResponse[b]} =
                   {JsonResponse(201, ""), JsonResponse(400, "User already exists")}

====
